---- MODULE Spec2Model ----
(***************************************************************************)
(* FaceMatrixLab: the detection thread, the bounded data queue and the     *)
(* render loop of the three renderers (FaceMatrixLabRenderer,              *)
(* FaceMaskRenderer, SimpleFaceRenderer), together with the camera         *)
(* calibration set-up and the per-frame update of the displayed mesh.      *)
(*                                                                         *)
(* Numbers: coordinates are integers (millimetres); the AR scale factor    *)
(* and the expression strength are fixed-point, in units of 1/ScaleUnit.   *)
(* A vertex array is represented by its entries at the landmark indices    *)
(* the pose solver reads (pnp_indices), plus one vertex beyond the first   *)
(* 468 for the full mesh.                                                  *)
(***************************************************************************)
EXTENDS Integers, Sequences, FiniteSets, TLC

VARIABLES
    renderer,                 \* which renderer class this session runs
    env,                      \* the environment: files on disk, what the camera sees
    process,                  \* "alive" | "exited" (the interpreter)
    \* ---- shared between the two threads
    is_running,               \* self.is_running
    data_queue,               \* self.data_queue (oldest first)
    \* ---- detection thread
    det_pc,                   \* position of detection_thread
    frame_count,              \* frames captured so far (production sequence number)
    cap,                      \* the cv2.VideoCapture: "none" | "opened" | "released"
    data_packet,              \* the packet being enqueued (local of detection_thread)
    put_result,               \* what became of data_packet: "none" | "direct" | "replaced" | "lost"
    \* ---- render thread
    ren_pc,                   \* position of __init__ / run / run_with_visualizer
    pkt,                      \* the packet taken in this iteration, or NoPacket
    model_updated,            \* result of the update call of this iteration
    pushed,                   \* vis.update_geometry(face_mesh) was called in this iteration
    solver,                   \* the last cv2.solvePnP call: [called, K, dist, n]
    keys_pressed,             \* number of parameter keys handled so far
    \* ---- camera parameters (FaceMatrixLabRenderer)
    use_solvepnp, K, dist, loaded_K,
    \* ---- mesh
    original_vertices, original_full_vertices, face_mesh,
    current_transformed_vertices,
    \* ---- user parameters
    ar_scale_factor, ar_offset, coordinate_system_flip_z, fallback_to_matrix,
    enable_expression_drive, expression_strength,
    exported,                 \* the last exported OBJ: [vertices, faces] or NoExport
    output_frozen,            \* history: the latest packet the render loop took left the mesh as it was
    taken,                    \* history: the number of the latest packet the render loop took, and
                              \* whether every packet it took had a higher number than the one before
    \* ---- FaceWarper (face_warper.py)
    valid_triangles,          \* self.valid_triangles
    cached_triangles,         \* self.cached_triangles, or NoCache
    warp,                     \* the last warp_face_texture call: its arguments and what it did
    smooth,                   \* the last smooth_landmarks call: its arguments and its result
    \* ---- AdvancedExpressionDriver (expression_driver.py)
    driver,                   \* neutral baselines and smoothing accumulators
    expr                      \* the last detect_*_expression call: its measurement and its result

threadVars == <<is_running, data_queue, det_pc, frame_count, cap, data_packet, put_result>>
detVars    == <<det_pc, frame_count, cap, data_packet, put_result>>
loopVars   == <<pkt, model_updated, pushed, solver, keys_pressed>>
camVars    == <<use_solvepnp, K, dist, loaded_K>>
meshVars   == <<original_vertices, original_full_vertices, face_mesh, current_transformed_vertices>>
paramVars  == <<ar_scale_factor, ar_offset, coordinate_system_flip_z, fallback_to_matrix,
                enable_expression_drive, expression_strength>>
sessionVars == <<camVars, meshVars, paramVars, exported>>
libVars == <<valid_triangles, cached_triangles, warp, smooth, driver, expr>>
rendererVars == <<renderer, env, process, threadVars, ren_pc, loopVars, sessionVars,
                  output_frozen, taken>>
vars == <<rendererVars, libVars>>

-----------------------------------------------------------------------------
(* Bounds of the model *)

MaxFramesQ == 7      \* frames the camera delivers in the queue scenarios
MaxFramesC == 6      \* frames the camera delivers in the calibration scenarios
MaxFramesU == 4      \* frames the camera delivers in the session scenarios
MaxMoving  == 2      \* frames in which the scene changes; it holds still afterwards
MaxFramesK == 2      \* frames of a session in which parameter keys are pressed
MaxScaleKeys == 3    \* scale keys pressed in one session
MaxWarps   == 2      \* warp_face_texture calls on one FaceWarper
MaxSmoothCalls == 3  \* smooth_landmarks calls of one caller
MantissaBits == 4    \* bits of mantissa of a floating-point number
MaxDetect  == 3      \* detect_*_expression calls on one driver
MaxCalibrations == 2 \* calibrate_neutral_expression calls on one driver
MaxKeys    == 1      \* parameter keys handled in one session

-----------------------------------------------------------------------------
(* Program constants *)

QueueMaxSizeLab    == 5
QueueMaxSizeMask   == 5
QueueMaxSizeSimple == 3
MinPnPPoints == 8
TargetWidth  == 14
ScaleUnit    == 1000
render_width  == 1280
render_height == 720
f_mm == 50
sensor_width_mm == 36
NumModelVertices == 468

Renderers == {"lab", "mask", "simple"}

maxsize(r) == CASE r = "lab"    -> QueueMaxSizeLab
                [] r = "mask"   -> QueueMaxSizeMask
                [] r = "simple" -> QueueMaxSizeSimple

pnp_indices == <<1, 168, 10, 152, 175, 33, 263, 130, 359, 70, 300, 107, 336,
                 19, 94, 234, 454, 172, 397>>

None == "None"
NoPacket == [seq |-> 0, det |-> [face |-> FALSE, nlm |-> 0, solve |-> "fail", pose |-> 1,
                                 matrix |-> FALSE, blend |-> 0]]
NoExport == [vertices |-> <<>>, faces |-> <<>>]

-----------------------------------------------------------------------------
(* queue.Queue: put_nowait and get_nowait never wait; they raise instead *)

Full(q, r)  == Len(q) >= maxsize(r)
Empty(q)    == Len(q) = 0

\* a put that does not look at the capacity
\* the render loop has taken no packet yet / has taken the packet item
NoneTaken == [last |-> 0, ordered |-> TRUE]
Taken(before, item) ==
    IF item = NoPacket THEN before
    ELSE [last |-> item.seq, ordered |-> before.ordered /\ item.seq > before.last]

PutNowaitUnchecked(q, r, x) == [raised |-> None, q |-> Append(q, x)]

PutNowait(q, r, x) ==
    IF Full(q, r) THEN [raised |-> "Full", q |-> q]
                  ELSE [raised |-> None, q |-> Append(q, x)]

\* a queue that hands out its newest item
GetNowaitNewest(q) ==
    IF Empty(q) THEN [raised |-> "Empty", q |-> q, item |-> NoPacket]
                ELSE [raised |-> None, q |-> SubSeq(q, 1, Len(q) - 1), item |-> q[Len(q)]]

GetNowait(q) ==
    IF Empty(q) THEN [raised |-> "Empty", q |-> q, item |-> NoPacket]
                ELSE [raised |-> None, q |-> Tail(q), item |-> Head(q)]

-----------------------------------------------------------------------------
(* What the landmark detector returns for a frame.  nlm is the number of    *)
(* landmarks of the first face; solve and pose are what cv2.solvePnP makes  *)
(* of the correspondences of that frame; matrix tells whether a facial      *)
(* transformation matrix came with the result; blend is the blendshape      *)
(* score of the frame.                                                      *)

Det(face, nlm, solve, pose, matrix, blend) ==
    [face |-> face, nlm |-> nlm, solve |-> solve, pose |-> pose,
     matrix |-> matrix, blend |-> blend]

NoFaceDet == Det(FALSE, 0, "fail", 1, FALSE, 0)
GoodDetA  == Det(TRUE, 478, "ok", 1, TRUE, 0)
GoodDetB  == Det(TRUE, 478, "ok", 2, TRUE, 1)

Detections ==
    { NoFaceDet, GoodDetA, GoodDetB,
      Det(TRUE,  94, "ok", 1, TRUE, 0),      \* 5 correspondences
      Det(TRUE, 107, "ok", 1, TRUE, 0),      \* 6
      Det(TRUE, 130, "ok", 1, TRUE, 0),      \* 7
      Det(TRUE, 152, "ok", 2, TRUE, 0),      \* 8
      Det(TRUE, 478, "fail", 1, FALSE, 0),
      Det(TRUE, 478, "raise", 1, FALSE, 1) }

-----------------------------------------------------------------------------
(* detection_thread *)

\* create_mediapipe_landmarker fails, or the camera cannot be opened: the
\* thread returns before its loop
DetCreateLandmarker ==
    /\ process = "alive" /\ det_pc = "create"
    /\ \E ok \in BOOLEAN : det_pc' = IF ok THEN "open" ELSE "done"
    /\ UNCHANGED <<renderer, env, output_frozen, taken, libVars, process, is_running, data_queue, frame_count, cap,
                   data_packet, put_result, ren_pc, loopVars, sessionVars>>

DetOpenCamera ==
    /\ process = "alive" /\ det_pc = "open"
    /\ \E opened \in BOOLEAN :
         /\ det_pc' = IF opened THEN "while" ELSE "done"
         /\ cap' = IF opened THEN "opened" ELSE "none"
    /\ UNCHANGED <<renderer, env, output_frozen, taken, libVars, process, is_running, data_queue, frame_count,
                   data_packet, put_result, ren_pc, loopVars, sessionVars>>

\* while self.is_running:
DetWhile ==
    /\ process = "alive" /\ det_pc = "while"
    /\ det_pc' = IF is_running THEN "read" ELSE "finally"
    /\ UNCHANGED <<renderer, env, output_frozen, taken, libVars, process, is_running, data_queue, frame_count, cap,
                   data_packet, put_result, ren_pc, loopVars, sessionVars>>

\* ret, frame = cap.read(); if not ret: continue
DetRead ==
    /\ process = "alive" /\ det_pc = "read"
    /\ \/ det_pc' = "while"                                   \* not ret
       \/ frame_count < env.frames /\ det_pc' = "detect"      \* a frame
       \/ det_pc' = "finally"                                 \* cap.read raises
    /\ UNCHANGED <<renderer, env, output_frozen, taken, libVars, process, is_running, data_queue, frame_count, cap,
                   data_packet, put_result, ren_pc, loopVars, sessionVars>>

\* flip, frame_count += 1, cvtColor, mp.Image, detect_for_video, data_packet = {...}
DetDetect ==
    /\ process = "alive" /\ det_pc = "detect"
    /\ \/ /\ \E d \in (IF frame_count < env.moving THEN env.scene
                                                      ELSE {data_packet.det}) :
               data_packet' = [seq |-> frame_count + 1, det |-> d]
          /\ frame_count' = frame_count + 1
          /\ put_result' = "none"
          /\ det_pc' = "put"
       \/ /\ det_pc' = "finally"                              \* an exception
          /\ frame_count' = frame_count + 1
          /\ UNCHANGED <<data_packet, put_result>>
    /\ UNCHANGED <<renderer, env, output_frozen, taken, libVars, process, is_running, data_queue, cap,
                   ren_pc, loopVars, sessionVars>>

\* a producer that uses the blocking self.data_queue.put(data_packet)
DetPutBlocking ==
    /\ process = "alive" /\ det_pc = "put"
    /\ ~Full(data_queue, renderer)
    /\ data_queue' = Append(data_queue, data_packet)
    /\ det_pc' = "sleep"
    /\ put_result' = "direct"
    /\ UNCHANGED <<renderer, env, output_frozen, taken, libVars, process, is_running, frame_count, cap, data_packet,
                   ren_pc, loopVars, sessionVars>>

\* a producer that also resets the scale of the session
DetPutResettingScale ==
    /\ process = "alive" /\ det_pc = "put"
    /\ LET r == PutNowait(data_queue, renderer, data_packet) IN
         /\ data_queue' = r.q
         /\ det_pc' = IF r.raised = "Full" THEN "retry_get" ELSE "sleep"
         /\ put_result' = IF r.raised = "Full" THEN put_result ELSE "direct"
    /\ ar_scale_factor' = 0
    /\ UNCHANGED <<renderer, env, output_frozen, taken, libVars, process, is_running, frame_count, cap, data_packet,
                   ren_pc, loopVars, camVars, meshVars, ar_offset, coordinate_system_flip_z,
                   fallback_to_matrix, enable_expression_drive, expression_strength, exported>>

\* self.data_queue.put_nowait(data_packet)   /   except queue.Full:
DetPut ==
    /\ process = "alive" /\ det_pc = "put"
    /\ LET r == PutNowait(data_queue, renderer, data_packet) IN
         /\ data_queue' = r.q
         /\ det_pc' = IF r.raised = "Full" THEN "retry_get" ELSE "sleep"
         /\ put_result' = IF r.raised = "Full" THEN put_result ELSE "direct"
    /\ UNCHANGED <<renderer, env, output_frozen, taken, libVars, process, is_running, frame_count, cap, data_packet,
                   ren_pc, loopVars, sessionVars>>

\* self.data_queue.get_nowait()   /   except queue.Empty: pass
DetRetryGet ==
    /\ process = "alive" /\ det_pc = "retry_get"
    /\ LET r == GetNowait(data_queue) IN
         /\ data_queue' = r.q
         /\ det_pc' = IF r.raised = "Empty" THEN "sleep" ELSE "retry_put"
         /\ put_result' = IF r.raised = "Empty" THEN "lost" ELSE put_result
    /\ UNCHANGED <<renderer, env, output_frozen, taken, libVars, process, is_running, frame_count, cap, data_packet,
                   ren_pc, loopVars, sessionVars>>

\* self.data_queue.put_nowait(data_packet) in the handler; a queue.Full raised
\* here is not caught by "except queue.Empty" and leaves the loop
DetRetryPut ==
    /\ process = "alive" /\ det_pc = "retry_put"
    /\ LET r == PutNowait(data_queue, renderer, data_packet) IN
         /\ data_queue' = r.q
         /\ det_pc' = IF r.raised = "Full" THEN "finally" ELSE "sleep"
         /\ put_result' = IF r.raised = "Full" THEN "lost" ELSE "replaced"
    /\ UNCHANGED <<renderer, env, output_frozen, taken, libVars, process, is_running, frame_count, cap, data_packet,
                   ren_pc, loopVars, sessionVars>>

\* FPS bookkeeping and time.sleep(1.0 / fps_target)
DetSleep ==
    /\ process = "alive" /\ det_pc = "sleep"
    /\ det_pc' = "while"
    /\ UNCHANGED <<renderer, env, output_frozen, taken, libVars, process, is_running, data_queue, frame_count, cap,
                   data_packet, put_result, ren_pc, loopVars, sessionVars>>

\* finally: cap.release()
DetFinally ==
    /\ process = "alive" /\ det_pc = "finally"
    /\ cap' = "released"
    /\ det_pc' = "done"
    /\ UNCHANGED <<renderer, env, output_frozen, taken, libVars, process, is_running, data_queue, frame_count,
                   data_packet, put_result, ren_pc, loopVars, sessionVars>>

DetectionThread ==
    \/ DetCreateLandmarker \/ DetOpenCamera \/ DetWhile \/ DetRead \/ DetDetect
    \/ DetPut \/ DetRetryGet \/ DetRetryPut \/ DetSleep \/ DetFinally

-----------------------------------------------------------------------------
(* Vectors, matrices and vertex arrays *)

VAdd(a, b)  == <<a[1] + b[1], a[2] + b[2], a[3] + b[3]>>
VSub(a, b)  == <<a[1] - b[1], a[2] - b[2], a[3] - b[3]>>
VScale(a, k) == <<a[1] * k, a[2] * k, a[3] * k>>
VDiv(a, k)  == <<a[1] \div k, a[2] \div k, a[3] \div k>>
Dot(a, b)   == a[1] * b[1] + a[2] * b[2] + a[3] * b[3]
MatVec(M, v) == <<Dot(M[1], v), Dot(M[2], v), Dot(M[3], v)>>
MatMul(A, B) ==
    [i \in 1..3 |-> [j \in 1..3 |-> A[i][1] * B[1][j] + A[i][2] * B[2][j] + A[i][3] * B[3][j]]]

RECURSIVE SumOver(_, _)
SumOver(f, S) ==
    IF S = {} THEN <<0, 0, 0>>
    ELSE LET i == CHOOSE j \in S : TRUE IN VAdd(f[i], SumOver(f, S \ {i}))

\* np.mean(vertices, axis=0)
Mean(f) == VDiv(SumOver(f, DOMAIN f), Cardinality(DOMAIN f))

MaxOf(S) == CHOOSE m \in S : \A x \in S : x <= m
MinOf(S) == CHOOSE m \in S : \A x \in S : m <= x

Identity3   == <<<<1, 0, 0>>, <<0, 1, 0>>, <<0, 0, 1>>>>
RotZ90      == <<<<0, -1, 0>>, <<1, 0, 0>>, <<0, 0, 1>>>>
flip_matrix == <<<<1, 0, 0>>, <<0, -1, 0>>, <<0, 0, -1>>>>

\* the poses the solver (or the detector's transformation matrix) can report,
\* translations in units of 1/ScaleUnit mm
Poses == <<[R |-> Identity3, T |-> <<0, 0, 500000>>],
           [R |-> RotZ90,    T |-> <<10000, -20000, 400000>>]>>

\* the entries of a vertex array that the model keeps
MeshIdx == {pnp_indices[i] : i \in 1..Len(pnp_indices)}
FullIdx == MeshIdx \cup {NumModelVertices}

\* the OBJ file on disk
LoadedVertex(i)  == <<(i % 8) - 3, (i % 5) - 2, i % 3>>
LoadedVertices     == [i \in MeshIdx |-> LoadedVertex(i)]
LoadedFullVertices == [i \in FullIdx |-> LoadedVertex(i)]
LoadedTriangles  == <<<<1, 10, 19>>, <<33, 70, 468>>>>

-----------------------------------------------------------------------------
(* Camera calibration (FaceMatrixLabRenderer.__init__) *)

Intrinsics(fx, fy, cx, cy) == [fx |-> fx, fy |-> fy, cx |-> cx, cy |-> cy]
NoK      == Intrinsics(0, 0, 0, 0)          \* self.K = None
NoDist   == <<>>                            \* self.dist = None
ZeroDist == <<0, 0, 0, 0, 0>>               \* np.zeros(5)

\* what is on disk: calib.npz and Camera-Calibration/output/intrinsic.txt
Calib(npz, text, k, d) == [npz |-> npz, text |-> text, K |-> k, dist |-> d]
CalibInputs ==
    { Calib("ok", "absent", Intrinsics(1000, 1010, 630, 350), <<-120, 30, 0, 0, 0>>),
      Calib("ok", "ok",     Intrinsics(1430, 1425, 655, 371), <<45, -210, 1, 0, 0>>),
      Calib("nodist", "absent", Intrinsics(1000, 1010, 630, 350), NoDist),
      Calib("raises", "ok",     Intrinsics(1000, 1010, 630, 350), NoDist),
      Calib("absent", "ok",     Intrinsics(910, 912, 640, 360), NoDist),
      Calib("absent", "bad",    NoK, NoDist),
      Calib("absent", "raises", NoK, NoDist),
      Calib("absent", "absent", NoK, NoDist) }

Camera(u, k, d) == [use_solvepnp |-> u, K |-> k, dist |-> d]

\* load_calibration_from_text: the result and the fields it leaves
LoadCalibrationFromText(c, cam) ==
    IF c.text = "ok"
    THEN [ret |-> TRUE,  cam |-> Camera(TRUE, c.K, ZeroDist)]
    ELSE [ret |-> FALSE, cam |-> cam]

\* load_camera_calibration
LoadCameraCalibration(c, cam) ==
    IF ~cam.use_solvepnp THEN cam
    ELSE CASE c.npz = "ok"     -> Camera(cam.use_solvepnp, c.K, c.dist)
           [] c.npz = "absent" ->
                LET t == LoadCalibrationFromText(c, cam) IN
                IF t.ret THEN t.cam ELSE Camera(FALSE, t.cam.K, t.cam.dist)
           [] OTHER            -> Camera(FALSE, NoK, NoDist)     \* except Exception

\* the 50mm-equivalent estimate
EstimatedK ==
    Intrinsics((f_mm * render_width) \div sensor_width_mm,
               (f_mm * render_height) \div sensor_width_mm,
               render_width \div 2, render_height \div 2)

\* setup_camera_parameters: the branch on "use_solvepnp and K is not None"
\* (lines 284-297) only sets fx, fy, cx, cy and prints; lines 299-315 are not
\* inside its else branch, so K and dist are assigned the estimate in both cases
SetupCameraParameters(cam) ==
    Camera(cam.use_solvepnp, EstimatedK, ZeroDist)

-----------------------------------------------------------------------------
(* update_face_model *)

\* for idx in self.pnp_indices: if idx < len(landmarks) and idx < len(self.original_vertices)
Correspondences(det) ==
    {pnp_indices[i] : i \in {j \in 1..Len(pnp_indices) :
                               /\ pnp_indices[j] < det.nlm
                               /\ pnp_indices[j] < NumModelVertices}}

\* scale_factor = target_width / model_width if model_width > 0 else 1.0,
\* in units of 1/ScaleUnit
ScaleFactor(ov, pts) ==
    LET xs == {ov[i][1] : i \in pts}
        model_width == MaxOf(xs) - MinOf(xs)
    IN  IF model_width > 0 THEN (TargetWidth * ScaleUnit) \div model_width ELSE ScaleUnit

\* if self.coordinate_system_flip_z / ar_scale_factor / ar_offset
ApplyUserParameters(tv, flipz, scale, offset) ==
    LET flipped == [i \in DOMAIN tv |->
                      IF flipz THEN <<tv[i][1], tv[i][2], -tv[i][3]>> ELSE tv[i]]
        center  == Mean(flipped)
        scaled  == IF scale # ScaleUnit
                   THEN [i \in DOMAIN tv |->
                           VAdd(center, VDiv(VScale(VSub(flipped[i], center), scale), ScaleUnit))]
                   ELSE flipped
    IN  [i \in DOMAIN tv |-> VAdd(scaled[i], offset)]

\* lines 646-692: the vertices of a solved frame, from the reference vertices
SolvedVertices(ofv, ov, pts, pose, flipz, scale, offset) ==
    LET scale_factor == ScaleFactor(ov, pts)
        R_corrected  == MatMul(flip_matrix, pose.R)
        T_corrected  == MatVec(flip_matrix, pose.T)
        transformed  == [i \in DOMAIN ofv |->
                           VAdd(MatVec(R_corrected, VScale(ofv[i], scale_factor)), T_corrected)]
    IN  ApplyUserParameters(transformed, flipz, scale, offset)

NotCalled == [called |-> FALSE, K |-> NoK, dist |-> NoDist, n |-> 0]

\* an update that puts the reference vertices back when the solver fails
UpdateFaceModelResetOnFailure(det, cam, ofv, ov, shown, flipz, scale, offset) ==
    IF ~det.face
    THEN [ret |-> FALSE, vertices |-> shown, solver |-> NotCalled]
    ELSE LET pts == Correspondences(det) IN
         IF Cardinality(pts) < MinPnPPoints
         THEN [ret |-> FALSE, vertices |-> shown, solver |-> NotCalled]
         ELSE LET call == [called |-> TRUE, K |-> cam.K, dist |-> cam.dist,
                           n |-> Cardinality(pts)] IN
              IF det.solve # "ok"
              THEN [ret |-> FALSE, vertices |-> ofv, solver |-> call]
              ELSE [ret |-> TRUE,
                    vertices |-> SolvedVertices(ofv, ov, pts, Poses[det.pose], flipz, scale, offset),
                    solver |-> call]

\* an update that asks for 6 correspondences instead of 8
UpdateFaceModelSixPoints(det, cam, ofv, ov, shown, flipz, scale, offset) ==
    IF ~det.face
    THEN [ret |-> FALSE, vertices |-> shown, solver |-> NotCalled]
    ELSE LET pts == Correspondences(det) IN
         IF Cardinality(pts) < 6
         THEN [ret |-> FALSE, vertices |-> shown, solver |-> NotCalled]
         ELSE LET call == [called |-> TRUE, K |-> cam.K, dist |-> cam.dist,
                           n |-> Cardinality(pts)] IN
              IF det.solve # "ok"
              THEN [ret |-> FALSE, vertices |-> shown, solver |-> call]
              ELSE [ret |-> TRUE,
                    vertices |-> SolvedVertices(ofv, ov, pts, Poses[det.pose], flipz, scale, offset),
                    solver |-> call]

\* an update that blends the new vertices with the ones on display
UpdateFaceModelBlended(det, cam, ofv, ov, shown, flipz, scale, offset) ==
    IF ~det.face
    THEN [ret |-> FALSE, vertices |-> shown, solver |-> NotCalled]
    ELSE LET pts == Correspondences(det) IN
         IF Cardinality(pts) < MinPnPPoints
         THEN [ret |-> FALSE, vertices |-> shown, solver |-> NotCalled]
         ELSE LET call == [called |-> TRUE, K |-> cam.K, dist |-> cam.dist,
                           n |-> Cardinality(pts)]
                  new == SolvedVertices(ofv, ov, pts, Poses[det.pose], flipz, scale, offset)
              IN
              IF det.solve # "ok"
              THEN [ret |-> FALSE, vertices |-> shown, solver |-> call]
              ELSE [ret |-> TRUE,
                    vertices |-> [i \in DOMAIN new |-> VDiv(VAdd(shown[i], new[i]), 2)],
                    solver |-> call]

\* an update that transforms the vertices of the previous frame
UpdateFaceModelFromShown(det, cam, ofv, ov, shown, flipz, scale, offset) ==
    IF ~det.face
    THEN [ret |-> FALSE, vertices |-> shown, solver |-> NotCalled]
    ELSE LET pts == Correspondences(det) IN
         IF Cardinality(pts) < MinPnPPoints
         THEN [ret |-> FALSE, vertices |-> shown, solver |-> NotCalled]
         ELSE LET call == [called |-> TRUE, K |-> cam.K, dist |-> cam.dist,
                           n |-> Cardinality(pts)] IN
              IF det.solve # "ok"
              THEN [ret |-> FALSE, vertices |-> shown, solver |-> call]
              ELSE [ret |-> TRUE,
                    vertices |-> SolvedVertices(shown, ov, pts, Poses[det.pose], flipz, scale, offset),
                    solver |-> call]

\* FaceMatrixLabRenderer.update_face_model
UpdateFaceModel(det, cam, ofv, ov, shown, flipz, scale, offset) ==
    IF ~det.face
    THEN [ret |-> FALSE, vertices |-> shown, solver |-> NotCalled]
    ELSE LET pts == Correspondences(det) IN
         IF Cardinality(pts) < MinPnPPoints
         THEN [ret |-> FALSE, vertices |-> shown, solver |-> NotCalled]
         ELSE LET call == [called |-> TRUE, K |-> cam.K, dist |-> cam.dist,
                           n |-> Cardinality(pts)] IN
              IF det.solve # "ok"
              THEN [ret |-> FALSE, vertices |-> shown, solver |-> call]
              ELSE [ret |-> TRUE,
                    vertices |-> SolvedVertices(ofv, ov, pts, Poses[det.pose], flipz, scale, offset),
                    solver |-> call]

\* FaceMatrixLabRenderer.update_face_model_fallback and
\* SimpleFaceRenderer.update_face_model: facial_transform_matrix @ vertices
MatrixVertices(ov, pose) ==
    [i \in DOMAIN ov |-> VAdd(VScale(MatVec(pose.R, ov[i]), ScaleUnit), pose.T)]

UpdateFaceModelFallback(det, ov, shown, flipz, scale, offset) ==
    IF ~det.face THEN [ret |-> FALSE, vertices |-> shown]
    ELSE IF det.matrix
         THEN [ret |-> TRUE,
               vertices |-> ApplyUserParameters(MatrixVertices(ov, Poses[det.pose]),
                                                flipz, scale, offset)]
         ELSE [ret |-> FALSE, vertices |-> shown]

UpdateFaceModelSimple(det, ov, shown) ==
    IF ~det.face THEN [ret |-> FALSE, vertices |-> shown]
    ELSE IF det.matrix
         THEN [ret |-> TRUE, vertices |-> MatrixVertices(ov, Poses[det.pose])]
         ELSE [ret |-> FALSE, vertices |-> shown]

\* FaceMaskRenderer.apply_expression_drive with one jaw-open blendshape of
\* score det.blend: the mouth vertex group moves down by 3 * score
mouth_vertex_indices == 100..149
ExpressionThreshold == 100                  \* score < 0.1: skipped

ApplyExpressionDrive(tv, det, strength) ==
    LET score == det.blend * strength IN
    IF score < ExpressionThreshold THEN tv
    ELSE [i \in DOMAIN tv |->
            IF i \in mouth_vertex_indices
            THEN VAdd(tv[i], <<0, -(3 * score), 0>>) ELSE tv[i]]

\* FaceMaskRenderer.update_face_model: the TRS matrix of lines 499-661 is a
\* function of the four landmarks of the frame, here the pose of the detection
UpdateFaceModelMask(det, ov, shown, current, drive, strength) ==
    IF ~det.face \/ det.nlm < NumModelVertices
    THEN [ret |-> FALSE, vertices |-> shown, current |-> current]
    ELSE LET transformed == MatrixVertices(ov, Poses[det.pose]) IN
         [ret |-> TRUE,
          vertices |-> IF drive THEN ApplyExpressionDrive(transformed, det, strength)
                                ELSE transformed,
          current |-> transformed]

-----------------------------------------------------------------------------
(* __init__ *)

CurrentCamera == Camera(use_solvepnp, K, dist)

\* self.load_camera_calibration()
LabLoadCameraCalibration ==
    /\ process = "alive" /\ ren_pc = "load_calib"
    /\ LET cam == LoadCameraCalibration(env.calib, CurrentCamera) IN
         /\ use_solvepnp' = cam.use_solvepnp
         /\ K' = cam.K
         /\ dist' = cam.dist
         /\ loaded_K' = [K |-> cam.K, dist |-> cam.dist]
    /\ ren_pc' = "setup_cam"
    /\ UNCHANGED <<renderer, env, output_frozen, taken, libVars, process, threadVars, loopVars, meshVars, paramVars, exported>>

\* self.setup_camera_parameters()
LabSetupCameraParameters ==
    /\ process = "alive" /\ ren_pc = "setup_cam"
    /\ LET cam == SetupCameraParameters(CurrentCamera) IN
         /\ use_solvepnp' = cam.use_solvepnp
         /\ K' = cam.K
         /\ dist' = cam.dist
    /\ ren_pc' = "load_model"
    /\ UNCHANGED <<renderer, env, output_frozen, taken, libVars, process, threadVars, loopVars, loaded_K, meshVars,
                   paramVars, exported>>

\* self.load_face_model(): the displayed mesh is the full mesh; the lab renderer
\* backs up the first 468 vertices and the full vertices, the others the full ones
LoadFaceModel ==
    /\ process = "alive" /\ ren_pc = "load_model"
    /\ face_mesh' = [vertices |-> LoadedFullVertices, triangles |-> LoadedTriangles]
    /\ original_vertices' = IF renderer = "lab" THEN LoadedVertices ELSE LoadedFullVertices
    /\ original_full_vertices' = IF renderer = "lab" THEN LoadedFullVertices
                                 ELSE original_full_vertices
    /\ ren_pc' = "run"
    /\ UNCHANGED <<renderer, env, output_frozen, taken, libVars, process, threadVars, loopVars, camVars,
                   current_transformed_vertices, paramVars, exported>>

-----------------------------------------------------------------------------
(* run, run_with_visualizer, cleanup *)

\* self.is_running = True; threading.Thread(target=self.detection_thread, daemon=True).start()
Run ==
    /\ process = "alive" /\ ren_pc = "run"
    /\ is_running' = TRUE
    /\ det_pc' = "create"
    /\ ren_pc' = "while"
    /\ UNCHANGED <<renderer, env, output_frozen, taken, libVars, process, data_queue, frame_count, cap, data_packet,
                   put_result, loopVars, sessionVars>>

\* while self.is_running:
RenderWhile ==
    /\ process = "alive" /\ ren_pc = "while"
    /\ ren_pc' = IF ~is_running THEN "cleanup"
                 ELSE IF renderer = "simple" THEN "empty" ELSE "get"
    /\ pkt' = NoPacket
    /\ model_updated' = FALSE
    /\ pushed' = FALSE
    /\ solver' = NotCalled
    /\ output_frozen' = IF pkt # NoPacket THEN ~model_updated ELSE output_frozen
    /\ UNCHANGED <<renderer, env, taken, libVars, process, threadVars, keys_pressed, sessionVars>>

\* pkt = self.data_queue.get_nowait()   /   except queue.Empty
RenderGet ==
    /\ process = "alive" /\ ren_pc = "get"
    /\ LET r == GetNowait(data_queue) IN
         /\ data_queue' = r.q
         /\ pkt' = r.item
         /\ taken' = Taken(taken, r.item)
    /\ ren_pc' = "update"
    /\ UNCHANGED <<renderer, env, output_frozen, libVars, process, is_running, detVars, model_updated, pushed,
                   solver, keys_pressed, sessionVars>>

\* the update of the mesh from the packet, and vis.update_geometry(face_mesh)
\* when the update reports success
RenderUpdate ==
    /\ process = "alive" /\ ren_pc = "update"
    /\ IF pkt = NoPacket
       THEN UNCHANGED <<model_updated, pushed, solver, face_mesh, current_transformed_vertices>>
       ELSE IF renderer = "lab"
            THEN LET u == IF fallback_to_matrix
                          THEN UpdateFaceModelFallback(pkt.det, original_vertices,
                                   face_mesh.vertices, coordinate_system_flip_z,
                                   ar_scale_factor, ar_offset)
                               @@ [solver |-> NotCalled]
                          ELSE UpdateFaceModel(pkt.det, CurrentCamera, original_full_vertices,
                                   original_vertices, face_mesh.vertices,
                                   coordinate_system_flip_z, ar_scale_factor, ar_offset)
                 IN /\ model_updated' = u.ret
                    /\ pushed' = u.ret
                    /\ solver' = u.solver
                    /\ face_mesh' = [face_mesh EXCEPT !.vertices = u.vertices]
                    /\ UNCHANGED current_transformed_vertices
            ELSE LET u == UpdateFaceModelMask(pkt.det, original_vertices, face_mesh.vertices,
                              current_transformed_vertices, enable_expression_drive,
                              expression_strength)
                 IN /\ model_updated' = u.ret
                    /\ pushed' = u.ret
                    /\ face_mesh' = [face_mesh EXCEPT !.vertices = u.vertices]
                    /\ current_transformed_vertices' = u.current
                    /\ UNCHANGED solver
    /\ ren_pc' = "key"
    /\ UNCHANGED <<renderer, env, output_frozen, taken, libVars, process, threadVars, pkt, keys_pressed, camVars,
                   original_vertices, original_full_vertices, paramVars, exported>>

\* SimpleFaceRenderer: while not self.data_queue.empty():
SimpleEmpty ==
    /\ process = "alive" /\ ren_pc = "empty"
    /\ ren_pc' = IF Empty(data_queue) THEN "poll" ELSE "sget"
    /\ UNCHANGED <<renderer, env, output_frozen, taken, libVars, process, threadVars, loopVars, sessionVars>>

\* data_packet = self.data_queue.get_nowait(); if self.update_face_model(...):
\* vis.update_geometry(...)   /   except queue.Empty: pass
SimpleGet ==
    /\ process = "alive" /\ ren_pc = "sget"
    /\ LET r == GetNowait(data_queue) IN
         /\ data_queue' = r.q
         /\ taken' = Taken(taken, r.item)
         /\ IF r.raised = "Empty"
            THEN /\ ren_pc' = "poll"
                 /\ UNCHANGED <<pkt, model_updated, pushed, face_mesh>>
            ELSE LET u == UpdateFaceModelSimple(r.item.det, original_vertices,
                                                face_mesh.vertices)
                 IN /\ pkt' = r.item
                    /\ model_updated' = u.ret
                    /\ pushed' = u.ret
                    /\ face_mesh' = [face_mesh EXCEPT !.vertices = u.vertices]
                    /\ ren_pc' = "empty"
    /\ UNCHANGED <<renderer, env, output_frozen, libVars, process, is_running, detVars, solver, keys_pressed, camVars,
                   original_vertices, original_full_vertices, current_transformed_vertices,
                   paramVars, exported>>

\* if not vis.poll_events(): break
SimplePoll ==
    /\ process = "alive" /\ ren_pc = "poll"
    /\ \E open \in BOOLEAN : ren_pc' = IF open THEN "while" ELSE "cleanup"
    /\ UNCHANGED <<renderer, env, output_frozen, taken, libVars, process, threadVars, loopVars, sessionVars>>

\* key = cv2.waitKey(1) & 0xFF: no key, or a key without a handler
KeyNone ==
    /\ process = "alive" /\ ren_pc = "key"
    /\ ren_pc' = "while"
    /\ UNCHANGED <<renderer, env, output_frozen, taken, libVars, process, threadVars, loopVars, sessionVars>>

\* 'q' (or ESC): break
KeyQuit ==
    /\ process = "alive" /\ ren_pc = "key"
    /\ ren_pc' = "cleanup"
    /\ UNCHANGED <<renderer, env, output_frozen, taken, libVars, process, threadVars, loopVars, sessionVars>>

\* except KeyboardInterrupt, anywhere in the render loop
Interrupt ==
    /\ process = "alive"
    /\ ren_pc \in {"while", "get", "update", "key", "empty", "sget", "poll"}
    /\ ren_pc' = "cleanup"
    /\ UNCHANGED <<renderer, env, output_frozen, taken, libVars, process, threadVars, loopVars, sessionVars>>

\* cleanup: self.is_running = False
Cleanup ==
    /\ process = "alive" /\ ren_pc = "cleanup"
    /\ is_running' = FALSE
    /\ ren_pc' = "returned"
    /\ UNCHANGED <<renderer, env, output_frozen, taken, libVars, process, data_queue, detVars, loopVars, sessionVars>>

\* main returns after renderer.run(); the detection thread is a daemon thread
\* that run() never joins, so the interpreter exits without waiting for it
ProcessExit ==
    /\ process = "alive" /\ ren_pc = "returned"
    /\ process' = "exited"
    /\ UNCHANGED <<renderer, env, output_frozen, taken, libVars, threadVars, ren_pc, loopVars, sessionVars>>

-----------------------------------------------------------------------------
(* Keys that change the user parameters, and the export *)

MinOf2(a, b) == IF a <= b THEN a ELSE b
MaxOf2(a, b) == IF a >= b THEN a ELSE b

KeyHandled(r) ==
    /\ process = "alive" /\ ren_pc = "key" /\ renderer = r
    /\ keys_pressed < env.keys
    /\ keys_pressed' = keys_pressed + 1
    /\ ren_pc' = "while"
    /\ UNCHANGED <<renderer, env, output_frozen, taken, libVars, process, threadVars, pkt, model_updated, pushed, solver,
                   camVars, meshVars>>

\* 'f' / 'F': self.coordinate_system_flip_z = not self.coordinate_system_flip_z
KeyFlipZ ==
    /\ KeyHandled("lab")
    /\ coordinate_system_flip_z' = ~coordinate_system_flip_z
    /\ UNCHANGED <<ar_scale_factor, ar_offset, fallback_to_matrix, enable_expression_drive,
                   expression_strength, exported>>

\* '+' / '=': min(5.0, self.ar_scale_factor + 0.1)
KeyPlus ==
    /\ KeyHandled("lab")
    /\ ar_scale_factor' = MinOf2(5 * ScaleUnit, ar_scale_factor + ScaleUnit \div 10)
    /\ UNCHANGED <<ar_offset, coordinate_system_flip_z, fallback_to_matrix,
                   enable_expression_drive, expression_strength, exported>>

\* '-' / '_': max(0.1, self.ar_scale_factor - 0.1)
KeyMinus ==
    /\ KeyHandled("lab")
    /\ ar_scale_factor' = MaxOf2(ScaleUnit \div 10, ar_scale_factor - ScaleUnit \div 10)
    /\ UNCHANGED <<ar_offset, coordinate_system_flip_z, fallback_to_matrix,
                   enable_expression_drive, expression_strength, exported>>

\* '[': max(0.01, self.ar_scale_factor * 0.1)
KeyBracketLeft ==
    /\ KeyHandled("lab")
    /\ ar_scale_factor' = MaxOf2(ScaleUnit \div 100, ar_scale_factor \div 10)
    /\ UNCHANGED <<ar_offset, coordinate_system_flip_z, fallback_to_matrix,
                   enable_expression_drive, expression_strength, exported>>

\* ']': min(100.0, self.ar_scale_factor * 10.0)
KeyBracketRight ==
    /\ KeyHandled("lab")
    /\ ar_scale_factor' = MinOf2(100 * ScaleUnit, ar_scale_factor * 10)
    /\ UNCHANGED <<ar_offset, coordinate_system_flip_z, fallback_to_matrix,
                   enable_expression_drive, expression_strength, exported>>

\* key codes 81..86 (arrows, PgUp, PgDn): the offsets move by 5.0 (x, y) or 10.0 (z)
ArrowSteps == { <<-5 * ScaleUnit, 0, 0>>, <<5 * ScaleUnit, 0, 0>>,
                <<0, -5 * ScaleUnit, 0>>, <<0, 5 * ScaleUnit, 0>>,
                <<0, 0, -10 * ScaleUnit>>, <<0, 0, 10 * ScaleUnit>> }

KeyArrow ==
    /\ KeyHandled("lab")
    /\ \E d \in ArrowSteps : ar_offset' = VAdd(ar_offset, d)
    /\ UNCHANGED <<ar_scale_factor, coordinate_system_flip_z, fallback_to_matrix,
                   enable_expression_drive, expression_strength, exported>>

\* 'm' / 'M': self.fallback_to_matrix = not self.fallback_to_matrix
KeyToggleMethod ==
    /\ KeyHandled("lab")
    /\ fallback_to_matrix' = ~fallback_to_matrix
    /\ UNCHANGED <<ar_scale_factor, ar_offset, coordinate_system_flip_z,
                   enable_expression_drive, expression_strength, exported>>

\* 'r': reset of the AR parameters
KeyReset ==
    /\ KeyHandled("lab")
    /\ ar_scale_factor' = ScaleUnit
    /\ ar_offset' = <<0, 0, 0>>
    /\ coordinate_system_flip_z' = FALSE
    /\ UNCHANGED <<fallback_to_matrix, enable_expression_drive, expression_strength, exported>>

\* f {triangle[0]+1} {triangle[1]+1} {triangle[2]+1}
ObjFaces(triangles) ==
    [t \in DOMAIN triangles |-> <<triangles[t][1] + 1, triangles[t][2] + 1, triangles[t][3] + 1>>]

\* export_current_model: np.asarray(self.face_mesh.vertices) and the triangles
ExportCurrentModel(mesh) ==
    IF DOMAIN mesh.vertices = {} THEN NoExport
    ELSE [vertices |-> mesh.vertices, faces |-> ObjFaces(mesh.triangles)]

\* export_realtime_model: self.current_transformed_vertices and the triangles
ExportRealtimeModel(mesh, current) ==
    IF DOMAIN current = {} THEN NoExport
    ELSE [vertices |-> current, faces |-> ObjFaces(mesh.triangles)]

\* 'e' / 'E' in the lab renderer
KeyExportLab ==
    /\ KeyHandled("lab")
    /\ LET e == ExportCurrentModel(face_mesh) IN
         exported' = IF e = NoExport THEN exported ELSE e
    /\ UNCHANGED paramVars

\* 'e' in the mask renderer
KeyExportMask ==
    /\ KeyHandled("mask")
    /\ LET e == ExportRealtimeModel(face_mesh, current_transformed_vertices) IN
         exported' = IF e = NoExport THEN exported ELSE e
    /\ UNCHANGED paramVars

\* 'f' in the mask renderer: self.enable_expression_drive = not self.enable_expression_drive
KeyToggleExpression ==
    /\ KeyHandled("mask")
    /\ enable_expression_drive' = ~enable_expression_drive
    /\ UNCHANGED <<ar_scale_factor, ar_offset, coordinate_system_flip_z, fallback_to_matrix,
                   expression_strength, exported>>

\* '+' / '-' in the mask renderer: the expression strength, within 0.0 .. 3.0
KeyStrength ==
    /\ KeyHandled("mask")
    /\ \/ expression_strength' = MinOf2(expression_strength + ScaleUnit \div 10, 3 * ScaleUnit)
       \/ expression_strength' = MaxOf2(expression_strength - ScaleUnit \div 10, 0)
    /\ UNCHANGED <<ar_scale_factor, ar_offset, coordinate_system_flip_z, fallback_to_matrix,
                   enable_expression_drive, exported>>

ParameterKeys ==
    \/ KeyFlipZ \/ KeyPlus \/ KeyMinus \/ KeyBracketLeft \/ KeyBracketRight \/ KeyArrow
    \/ KeyToggleMethod \/ KeyReset \/ KeyExportLab
    \/ KeyExportMask \/ KeyToggleExpression \/ KeyStrength

LabInit == LabLoadCameraCalibration \/ LabSetupCameraParameters

RunAndCleanup == LoadFaceModel \/ Run \/ RenderWhile \/ Interrupt \/ Cleanup \/ ProcessExit

RenderLoop == RenderGet \/ RenderUpdate \/ KeyNone \/ KeyQuit

SimpleLoop == SimpleEmpty \/ SimpleGet \/ SimplePoll

-----------------------------------------------------------------------------
(* AdvancedExpressionDriver (expression_driver.py).  The landmarks of a     *)
(* frame are represented by the distances the driver measures on them       *)
(* (np.linalg.norm of two landmarks) and the heights of the mouth corners;  *)
(* distances, ratios and expression levels are fixed-point, in units of     *)
(* 1/ScaleUnit.                                                             *)

mouth_sensitivity    == 2000     \* 2.0
eye_sensitivity      == 1500     \* 1.5
eyebrow_sensitivity  == 1800     \* 1.8
smoothing_factor     == 700      \* 0.7
MinCalibrationFrames == 10
CornerLiftGain       == 10
MouthOpenMax         == 2000     \* np.clip(mouth_open, 0, 2.0)
SmileMax             == 1500
BlinkMax             == 1000
RaiseMax             == 1500

Signals  == {"mouth", "eye", "eyebrow"}
NoNeutral == -1                   \* self.neutral_mouth_height = None
NoNeutrals == <<>>                \* self.neutral_eye_heights = {}
BothSides(l, r) == [left |-> l, right |-> r]

Landmarks(mh, mw, cl, cr, el, er, bl, br) ==
    [mouth_height |-> mh, mouth_width |-> mw, corner_y |-> BothSides(cl, cr),
     eye_height |-> BothSides(el, er), eyebrow_height |-> BothSides(bl, br)]

NeutralFace  == Landmarks(20, 50, 400, 400, 10, 10, 30, 30)
OpenFace     == Landmarks(30, 60, 398, 402, 5, 10, 45, 30)
WideOpenFace == Landmarks(80, 90, 400, 400, 0, 2, 60, 60)
RelaxedFace  == Landmarks(40, 50, 400, 400, 20, 20, 30, 30)
Faces == {NeutralFace, OpenFace, WideOpenFace}

\* the landmarks_list arguments of calibrate_neutral_expression
FrameList(lm, n) == [i \in 1..n |-> lm]
LandmarksLists ==
    { FrameList(NeutralFace, MinCalibrationFrames - 1),
      FrameList(NeutralFace, MinCalibrationFrames),
      FrameList(RelaxedFace, MinCalibrationFrames) \o <<NeutralFace, NeutralFace>> }

\* __init__
NewDriver ==
    [neutral_mouth_height |-> NoNeutral, neutral_mouth_width |-> NoNeutral,
     neutral_eye_heights |-> NoNeutrals, neutral_eyebrow_heights |-> NoNeutrals,
     prev_mouth_open |-> 0, prev_smile_level |-> 0,
     prev_eye_blink |-> BothSides(0, 0), prev_eyebrow_raise |-> BothSides(0, 0)]

\* the latest call, with what the caller can see of it; fresh is the set of
\* signals that have not been sampled since the driver was created, calibrated
\* or left without measurements (reset_by tells which); frames is the length
\* of the latest landmarks_list and calibrated tells that a calibration has
\* returned True
NoExpr ==
    [call |-> "none", landmarks |-> NeutralFace, ret |-> FALSE, first |-> FALSE,
     reset_by |-> "init", fresh |-> Signals, calls |-> 0, calibrations |-> 0,
     frames |-> 0, calibrated |-> FALSE]

RECURSIVE SumSeq(_)
SumSeq(q) == IF q = <<>> THEN 0 ELSE Head(q) + SumSeq(Tail(q))

\* np.mean
MeanOf(q) == SumSeq(q) \div Len(q)

Clip(x, lo, hi) == MaxOf2(lo, MinOf2(hi, x))
Ratio(a, b) == (a * ScaleUnit) \div b
Times(a, b) == (a * b) \div ScaleUnit

\* prev * self.smoothing_factor + value * (1 - self.smoothing_factor)
SmoothedLevel(prev, value) ==
    Times(prev, smoothing_factor) + Times(value, ScaleUnit - smoothing_factor)

\* a calibration that takes a list of any length
CalibrateNeutralExpressionAnyCount(d, landmarks_list) ==
    [ret |-> TRUE,
     driver |-> [d EXCEPT
         !.neutral_mouth_height =
             MeanOf([i \in DOMAIN landmarks_list |-> landmarks_list[i].mouth_height]),
         !.neutral_mouth_width =
             MeanOf([i \in DOMAIN landmarks_list |-> landmarks_list[i].mouth_width])]]

\* a calibration that sets the baseline of the mouth only
CalibrateNeutralExpressionMouthOnly(d, landmarks_list) ==
    IF Len(landmarks_list) < MinCalibrationFrames
    THEN [ret |-> FALSE, driver |-> d]
    ELSE [ret |-> TRUE,
          driver |-> [d EXCEPT
              !.neutral_mouth_height =
                  MeanOf([i \in DOMAIN landmarks_list |-> landmarks_list[i].mouth_height]),
              !.neutral_mouth_width =
                  MeanOf([i \in DOMAIN landmarks_list |-> landmarks_list[i].mouth_width])]]

\* calibrate_neutral_expression
CalibrateNeutralExpression(d, landmarks_list) ==
    IF Len(landmarks_list) < MinCalibrationFrames
    THEN [ret |-> FALSE, driver |-> d]
    ELSE LET mouth_heights == [i \in DOMAIN landmarks_list |-> landmarks_list[i].mouth_height]
             mouth_widths == [i \in DOMAIN landmarks_list |-> landmarks_list[i].mouth_width]
             eye_heights(side) ==
                 [i \in DOMAIN landmarks_list |-> landmarks_list[i].eye_height[side]]
             eyebrow_heights(side) ==
                 [i \in DOMAIN landmarks_list |-> landmarks_list[i].eyebrow_height[side]]
         IN [ret |-> TRUE,
             driver |-> [d EXCEPT
                 !.neutral_mouth_height = MeanOf(mouth_heights),
                 !.neutral_mouth_width = MeanOf(mouth_widths),
                 !.neutral_eye_heights = BothSides(MeanOf(eye_heights("left")),
                                                   MeanOf(eye_heights("right"))),
                 !.neutral_eyebrow_heights = BothSides(MeanOf(eyebrow_heights("left")),
                                                       MeanOf(eyebrow_heights("right")))]]

\* the measurements of one frame before smoothing
MouthOpenLevel(d, lm) ==
    MaxOf2(0, Times(Ratio(lm.mouth_height - d.neutral_mouth_height,
                          d.neutral_mouth_height), mouth_sensitivity))

SmileLevel(d, lm) ==
    LET width_ratio == Ratio(lm.mouth_width - d.neutral_mouth_width, d.neutral_mouth_width)
        baseline_y == (lm.corner_y.left + lm.corner_y.right) \div 2
        corner_lift_left == baseline_y - lm.corner_y.left
        corner_lift_right == baseline_y - lm.corner_y.right
        avg_corner_lift == (corner_lift_left + corner_lift_right) \div 2
    IN MaxOf2(0, Times(width_ratio + avg_corner_lift * CornerLiftGain, mouth_sensitivity))

BlinkLevel(d, lm, side) ==
    MaxOf2(0, Times(ScaleUnit - Ratio(lm.eye_height[side], d.neutral_eye_heights[side]),
                    eye_sensitivity))

RaiseLevel(d, lm, side) ==
    MaxOf2(0, Times(Ratio(lm.eyebrow_height[side] - d.neutral_eyebrow_heights[side],
                          d.neutral_eyebrow_heights[side]), eyebrow_sensitivity))

\* detect_mouth_expression
DetectMouthExpression(d, lm) ==
    IF d.neutral_mouth_height = NoNeutral
    THEN [ret |-> [open |-> 0, smile |-> 0], driver |-> d]
    ELSE LET mouth_open == SmoothedLevel(d.prev_mouth_open, MouthOpenLevel(d, lm))
             smile_level == SmoothedLevel(d.prev_smile_level, SmileLevel(d, lm))
         IN [ret |-> [open |-> Clip(mouth_open, 0, MouthOpenMax),
                      smile |-> Clip(smile_level, 0, SmileMax)],
             driver |-> [d EXCEPT !.prev_mouth_open = mouth_open,
                                  !.prev_smile_level = smile_level]]

\* detect_eye_expression
DetectEyeExpression(d, lm) ==
    IF DOMAIN d.neutral_eye_heights = {}
    THEN [ret |-> [left_blink |-> 0, right_blink |-> 0], driver |-> d]
    ELSE LET left_blink == SmoothedLevel(d.prev_eye_blink.left, BlinkLevel(d, lm, "left"))
             right_blink == SmoothedLevel(d.prev_eye_blink.right, BlinkLevel(d, lm, "right"))
         IN [ret |-> [left_blink |-> Clip(left_blink, 0, BlinkMax),
                      right_blink |-> Clip(right_blink, 0, BlinkMax)],
             driver |-> [d EXCEPT !.prev_eye_blink = BothSides(left_blink, right_blink)]]

\* detect_eyebrow_expression
DetectEyebrowExpression(d, lm) ==
    IF DOMAIN d.neutral_eyebrow_heights = {}
    THEN [ret |-> [left_raise |-> 0, right_raise |-> 0], driver |-> d]
    ELSE LET left_raise == SmoothedLevel(d.prev_eyebrow_raise.left, RaiseLevel(d, lm, "left"))
             right_raise == SmoothedLevel(d.prev_eyebrow_raise.right, RaiseLevel(d, lm, "right"))
         IN [ret |-> [left_raise |-> Clip(left_raise, 0, RaiseMax),
                      right_raise |-> Clip(right_raise, 0, RaiseMax)],
             driver |-> [d EXCEPT !.prev_eyebrow_raise = BothSides(left_raise, right_raise)]]

Detect(signal, d, lm) ==
    CASE signal = "mouth" -> DetectMouthExpression(d, lm)
      [] signal = "eye" -> DetectEyeExpression(d, lm)
      [] OTHER -> DetectEyebrowExpression(d, lm)

\* a call of calibrate_neutral_expression
Calibrate ==
    /\ expr.calibrations < MaxCalibrations
    /\ \E landmarks_list \in LandmarksLists :
           LET r == CalibrateNeutralExpression(driver, landmarks_list) IN
               /\ driver' = r.driver
               /\ expr' = [expr EXCEPT !.call = "calibrate", !.ret = r.ret,
                                       !.first = FALSE,
                                       !.reset_by = IF r.ret THEN "calibrate" ELSE @,
                                       !.fresh = IF r.ret THEN Signals ELSE @,
                                       !.calibrations = @ + 1,
                                       !.frames = Len(landmarks_list),
                                       !.calibrated = @ \/ r.ret]
    /\ UNCHANGED <<rendererVars, valid_triangles, cached_triangles, warp, smooth>>

\* the caller has no landmarks to pass (frames without a face): no method of
\* the driver is called
TrackingGap ==
    /\ expr.call \in Signals
    /\ expr' = [expr EXCEPT !.call = "gap", !.ret = FALSE, !.first = FALSE,
                            !.reset_by = "gap", !.fresh = Signals]
    /\ UNCHANGED <<rendererVars, valid_triangles, cached_triangles, warp, smooth, driver>>

DetectCall(signal) ==
    /\ \E lm \in Faces :
           LET r == Detect(signal, driver, lm) IN
               /\ driver' = r.driver
               /\ expr' = [expr EXCEPT !.call = signal, !.landmarks = lm, !.ret = r.ret,
                                       !.first = signal \in expr.fresh,
                                       !.fresh = @ \ {signal},
                                       !.calls = @ + 1]
    /\ UNCHANGED <<rendererVars, valid_triangles, cached_triangles, warp, smooth>>

DetectMouth ==
    /\ expr.calls < MaxDetect
    /\ DetectCall("mouth")

DetectEye ==
    /\ expr.calls < MaxDetect
    /\ DetectCall("eye")

DetectEyebrow ==
    /\ expr.calls < MaxDetect
    /\ DetectCall("eyebrow")

-----------------------------------------------------------------------------
(* FaceWarper.smooth_landmarks (face_warper.py).  The arrays hold binary    *)
(* floating-point numbers and every product and sum is rounded to the       *)
(* nearest representable number, ties to even, as numpy does; the model     *)
(* keeps MantissaBits bits of mantissa where float64 keeps 53.  A number is *)
(* [m, e], standing for m * 2^e, with 2^(MantissaBits-1) <= m <             *)
(* 2^MantissaBits, or m = 0.  Landmarks are not negative.                   *)

RECURSIVE Pow2(_)
Pow2(k) == IF k = 0 THEN 1 ELSE 2 * Pow2(k - 1)

RECURSIVE BitLength(_)
BitLength(n) == IF n = 0 THEN 0 ELSE 1 + BitLength(n \div 2)

\* n * 2^e rounded to MantissaBits bits
Round(n, e) ==
    IF n = 0 THEN [m |-> 0, e |-> 0]
    ELSE LET k == BitLength(n) - MantissaBits IN
         IF k <= 0 THEN [m |-> n * Pow2(0 - k), e |-> e + k]
         ELSE LET q == n \div Pow2(k)
                  r == n % Pow2(k)
                  half == Pow2(k - 1)
                  up == IF r > half \/ (r = half /\ q % 2 = 1) THEN 1 ELSE 0
              IN IF q + up = Pow2(MantissaBits)
                 THEN [m |-> (q + up) \div 2, e |-> e + k + 1]
                 ELSE [m |-> q + up, e |-> e + k]

FMul(a, b) == Round(a.m * b.m, a.e + b.e)
FAdd(a, b) ==
    LET e == MinOf2(a.e, b.e) IN Round(a.m * Pow2(a.e - e) + b.m * Pow2(b.e - e), e)
FSub(a, b) ==
    LET e == MinOf2(a.e, b.e) IN Round(a.m * Pow2(a.e - e) - b.m * Pow2(b.e - e), e)
FOne == Round(1, 0)

\* |a - b| <= n units in the last place of b
WithinUlps(a, b, n) ==
    LET e == MinOf2(a.e, b.e)
        d == a.m * Pow2(a.e - e) - b.m * Pow2(b.e - e)
    IN (IF d < 0 THEN 0 - d ELSE d) <= n * Pow2(b.e - e)

\* coordinates 0, 1.0, 1.5 and 1.875; smoothing factors 0, 0.5, 0.7 (11/16 is
\* the nearest number with 4 bits) and 0.875
Coordinates == { Round(0, 0), Round(8, -3), Round(12, -3), Round(15, -3) }
SmoothingFactors == { Round(0, 0), Round(1, -1), Round(11, -4), Round(7, -3) }
LandmarkArrays == { <<x, y>> : x \in Coordinates, y \in Coordinates }
NoLandmarks == <<>>                 \* previous_landmarks is None

\* smooth_landmarks with the weights the other way round
SmoothLandmarksSwapped(current_landmarks, previous_landmarks, factor) ==
    IF previous_landmarks = NoLandmarks THEN current_landmarks
    ELSE [i \in DOMAIN current_landmarks |->
              FAdd(FMul(FSub(FOne, factor), previous_landmarks[i]),
                   FMul(factor, current_landmarks[i]))]

\* smooth_landmarks that smooths the first sample against zeros
SmoothLandmarksFromZero(current_landmarks, previous_landmarks, factor) ==
    LET prev == IF previous_landmarks = NoLandmarks
                THEN [i \in DOMAIN current_landmarks |-> Round(0, 0)]
                ELSE previous_landmarks
    IN [i \in DOMAIN current_landmarks |->
            FAdd(FMul(factor, prev[i]),
                 FMul(FSub(FOne, factor), current_landmarks[i]))]

\* smooth_landmarks
SmoothLandmarks(current_landmarks, previous_landmarks, factor) ==
    IF previous_landmarks = NoLandmarks THEN current_landmarks
    ELSE [i \in DOMAIN current_landmarks |->
              FAdd(FMul(factor, previous_landmarks[i]),
                   FMul(FSub(FOne, factor), current_landmarks[i]))]

\* the latest call: its arguments as they are after the call, its result, and
\* whether every call so far was given the same current_landmarks and factor
NoSmooth ==
    [calls |-> 0, current |-> NoLandmarks, previous |-> NoLandmarks,
     factor |-> Round(0, 0), ret |-> NoLandmarks, constant |-> TRUE]

\* the first call of a caller that has no previous landmarks
SmoothFirst ==
    /\ smooth.calls = 0
    /\ \E current \in LandmarkArrays, factor \in SmoothingFactors :
           smooth' = [calls |-> 1, current |-> current, previous |-> NoLandmarks,
                      factor |-> factor,
                      ret |-> SmoothLandmarks(current, NoLandmarks, factor),
                      constant |-> TRUE]
    /\ UNCHANGED <<rendererVars, valid_triangles, cached_triangles, warp, driver, expr>>

\* a later call: the caller passes the result of its latest call as
\* previous_landmarks
SmoothNext ==
    /\ smooth.calls > 0 /\ smooth.calls < MaxSmoothCalls
    /\ \E current \in LandmarkArrays :
           smooth' = [calls |-> smooth.calls + 1, current |-> current,
                      previous |-> smooth.ret, factor |-> smooth.factor,
                      ret |-> SmoothLandmarks(current, smooth.ret, smooth.factor),
                      constant |-> smooth.constant /\ current = smooth.current]
    /\ UNCHANGED <<rendererVars, valid_triangles, cached_triangles, warp, driver, expr>>

-----------------------------------------------------------------------------
(* FaceWarper (face_warper.py).  A point array is a sequence of pixel        *)
(* coordinates <<x, y>>; the landmark index i of the code is position i + 1  *)
(* of the sequence.  A triangle is a triple of landmark indices.  The image  *)
(* is ImageSize pixels wide and high.                                        *)

FaceMeshLandmarks == 468          \* if all(idx < 468 for idx in triangle)
AreaEpsilon == 1                  \* cv2.contourArea(...) < 1.0
ImageSize == 6
InterTab == 32                    \* cv2 INTER_TAB_SIZE: positions in 1/32 pixel
MaskSet == 255                    \* cv2.fillConvexPoly(mask, ..., 255)

Range(q) == { q[i] : i \in DOMAIN q }
PointAt(points, idx) == points[idx + 1]
TrianglePoints(points, t) ==
    <<PointAt(points, t[1]), PointAt(points, t[2]), PointAt(points, t[3])>>

\* (b - a) x (c - a): twice the signed area of the triangle
Cross(a, b, c) == (b[1] - a[1]) * (c[2] - a[2]) - (b[2] - a[2]) * (c[1] - a[1])
SignedArea2(tri) == Cross(tri[1], tri[2], tri[3])
Abs(x) == IF x < 0 THEN 0 - x ELSE x

\* self.cached_triangles; n is the length of the point array it was generated
\* from
NoCache == [none |-> TRUE, triangles |-> <<>>, n |-> 0]
Cache(triangles, n) == [none |-> FALSE, triangles |-> triangles, n |-> n]

\* what mediapipe offers as triangulation data: nothing, the empty default
\* table, or a table that was made for more points than a call may pass
NoData == [none |-> TRUE, triangles |-> <<>>]
Table(triangles) == [none |-> FALSE, triangles |-> triangles]
TriangulationData ==
    { NoData, Table(<<>>), Table(<< <<0, 1, 2>>, <<0, 2, 3>>, <<0, 2, 470>> >>) }

\* _init_triangulation
InitTriangulation(data) ==
    IF data.none THEN <<>>
    ELSE SelectSeq(data.triangles,
                   LAMBDA triangle : \A idx \in Range(triangle) : idx < FaceMeshLandmarks)

\* d lies inside the circle through a, b and c
InCircle(a, b, c, d) ==
    LET row(q) == <<q[1] - d[1], q[2] - d[2],
                    (q[1] - d[1]) * (q[1] - d[1]) + (q[2] - d[2]) * (q[2] - d[2])>>
        A == row(a)
        B == row(b)
        C == row(c)
        det == A[1] * (B[2] * C[3] - B[3] * C[2])
               - A[2] * (B[1] * C[3] - B[3] * C[1])
               + A[3] * (B[1] * C[2] - B[2] * C[1])
    IN det * Cross(a, b, c) > 0

TripleBefore(s, t) ==
    \/ s[1] < t[1]
    \/ s[1] = t[1] /\ s[2] < t[2]
    \/ s[1] = t[1] /\ s[2] = t[2] /\ s[3] < t[3]

RECURSIVE SortedTriples(_)
SortedTriples(S) ==
    IF S = {} THEN <<>>
    ELSE LET first == CHOOSE t \in S : \A u \in S \ {t} : TripleBefore(t, u)
         IN <<first>> \o SortedTriples(S \ {first})

\* _generate_delaunay_triangulation: cv2.Subdiv2D over the points, read back
\* as index triples
GenerateDelaunayTriangulation(landmarks_pixels) ==
    IF Len(landmarks_pixels) < 3 THEN <<>>
    ELSE LET I == 0..(Len(landmarks_pixels) - 1)
             P(i) == PointAt(landmarks_pixels, i)
         IN SortedTriples(
                { <<i, j, k>> \in I \X I \X I :
                      /\ i < j /\ j < k
                      /\ Cross(P(i), P(j), P(k)) # 0
                      /\ \A l \in I \ {i, j, k} : ~InCircle(P(i), P(j), P(k), P(l)) })

\* a triangulation that is generated anew from the points of every call
TriangulationRecomputed(valid, cached, src_landmarks_pixels) ==
    IF Len(valid) = 0
    THEN LET cache == Cache(GenerateDelaunayTriangulation(src_landmarks_pixels),
                            Len(src_landmarks_pixels))
         IN [cached |-> cache, use_triangles |-> cache.triangles]
    ELSE [cached |-> cached, use_triangles |-> valid]

\* warp_face_texture, lines 240-248: the triangulation of this call
Triangulation(valid, cached, src_landmarks_pixels) ==
    IF Len(valid) = 0
    THEN LET cache == IF cached.none
                      THEN Cache(GenerateDelaunayTriangulation(src_landmarks_pixels),
                                 Len(src_landmarks_pixels))
                      ELSE cached
         IN [cached |-> cache, use_triangles |-> cache.triangles]
    ELSE [cached |-> cached, use_triangles |-> valid]

\* a flip test that lets every triangle through
IsTriangleFlippedNever(src_triangle, dst_triangle) == FALSE

\* _is_triangle_flipped
IsTriangleFlipped(src_triangle, dst_triangle) ==
    SignedArea2(src_triangle) * SignedArea2(dst_triangle) < 0

\* an area test that lets every triangle through
IsDegenerateNever(src_triangle, dst_triangle) == FALSE

\* cv2.contourArea(src_triangle) < 1.0 or cv2.contourArea(dst_triangle) < 1.0
IsDegenerate(src_triangle, dst_triangle) ==
    \/ Abs(SignedArea2(src_triangle)) < 2 * AreaEpsilon
    \/ Abs(SignedArea2(dst_triangle)) < 2 * AreaEpsilon

\* cv2.fillConvexPoly: the pixels of the image inside the triangle or on its
\* border
Pixels == (0..(ImageSize - 1)) \X (0..(ImageSize - 1))
Cover(tri) ==
    { px \in Pixels :
          LET c1 == Cross(tri[1], tri[2], px)
              c2 == Cross(tri[2], tri[3], px)
              c3 == Cross(tri[3], tri[1], px)
          IN \/ c1 >= 0 /\ c2 >= 0 /\ c3 >= 0
             \/ c1 <= 0 /\ c2 <= 0 /\ c3 <= 0 }

\* cv2.boundingRect of a triangle with integer corners
BoundingRect(tri) ==
    LET xs == { tri[i][1] : i \in 1..3 }
        ys == { tri[i][2] : i \in 1..3 }
    IN [x |-> MinOf(xs), y |-> MinOf(ys),
        w |-> MaxOf(xs) - MinOf(xs) + 1, h |-> MaxOf(ys) - MinOf(ys) + 1]

RectPixels(rect) ==
    (rect.x..(rect.x + rect.w - 1)) \X (rect.y..(rect.y + rect.h - 1))

\* the slice image[y:y+h, x:x+w] has the size of the rectangle
InsideImage(rect) ==
    /\ rect.x >= 0 /\ rect.y >= 0
    /\ rect.x + rect.w <= ImageSize /\ rect.y + rect.h <= ImageSize

\* source_image[y0:y0+h0, x0:x0+w0]: numpy cuts the slice at the image border
SourceRoi(rect) ==
    [x |-> rect.x, y |-> rect.y,
     w |-> MinOf({rect.x + rect.w, ImageSize}) - rect.x,
     h |-> MinOf({rect.y + rect.h, ImageSize}) - rect.y]

\* borderMode=cv2.BORDER_REFLECT_101 on an axis of n pixels
Reflect101(i, n) ==
    IF n = 1 THEN 0
    ELSE LET m == i % (2 * (n - 1))
         IN IF m < n THEN m ELSE 2 * (n - 1) - m

\* n / d rounded to the nearest integer
RoundDiv(n, d) ==
    IF d > 0 THEN (2 * n + d) \div (2 * d) ELSE (2 * (0 - n) - d) \div (2 * (0 - d))

\* cv2.getAffineTransform and the inverse map of cv2.warpAffine: the place in
\* the source, in 1/InterTab of a pixel, that the destination pixel px shows
SourcePosition(src_triangle, dst_triangle, px) ==
    LET la == Cross(dst_triangle[2], dst_triangle[3], px)
        lb == Cross(dst_triangle[3], dst_triangle[1], px)
        lc == Cross(dst_triangle[1], dst_triangle[2], px)
        at(k) == la * src_triangle[1][k] + lb * src_triangle[2][k] + lc * src_triangle[3][k]
    IN <<RoundDiv(InterTab * at(1), SignedArea2(dst_triangle)),
         RoundDiv(InterTab * at(2), SignedArea2(dst_triangle))>>

\* a sampling that reads the source half a pixel to the right
SampleLinearShifted(source_image, roi, pos) ==
    LET lx == pos[1] + InterTab \div 2 - InterTab * roi.x
        ly == pos[2] - InterTab * roi.y
        ix == lx \div InterTab
        iy == ly \div InterTab
        ax == lx % InterTab
        ay == ly % InterTab
        v(i, j) == source_image[<<roi.x + Reflect101(i, roi.w), roi.y + Reflect101(j, roi.h)>>]
    IN ((InterTab - ax) * (InterTab - ay) * v(ix, iy) + ax * (InterTab - ay) * v(ix + 1, iy)
        + (InterTab - ax) * ay * v(ix, iy + 1) + ax * ay * v(ix + 1, iy + 1)
        + (InterTab * InterTab) \div 2) \div (InterTab * InterTab)

\* flags=cv2.INTER_LINEAR: the four pixels of the ROI around the position,
\* weighted by its fraction
SampleLinear(source_image, roi, pos) ==
    LET lx == pos[1] - InterTab * roi.x
        ly == pos[2] - InterTab * roi.y
        ix == lx \div InterTab
        iy == ly \div InterTab
        ax == lx % InterTab
        ay == ly % InterTab
        v(i, j) == source_image[<<roi.x + Reflect101(i, roi.w), roi.y + Reflect101(j, roi.h)>>]
    IN ((InterTab - ax) * (InterTab - ay) * v(ix, iy) + ax * (InterTab - ay) * v(ix + 1, iy)
        + (InterTab - ax) * ay * v(ix, iy + 1) + ax * ay * v(ix + 1, iy + 1)
        + (InterTab * InterTab) \div 2) \div (InterTab * InterTab)

Skipped(why) == [skipped |-> why, affine |-> FALSE, pixels |-> {},
                 rect |-> [x |-> 0, y |-> 0, w |-> 0, h |-> 0], value |-> <<>>]

\* warp_triangle: the patch over the bounding rectangle of the destination
\* triangle and its mask
WarpTriangle(source_image, src_triangle, dst_triangle) ==
    LET roi == SourceRoi(BoundingRect(src_triangle))
        dst_rect == BoundingRect(dst_triangle)
    IN IF roi.w <= 0 \/ roi.h <= 0
       THEN Skipped("error")
       ELSE [skipped |-> "no", affine |-> TRUE,
             pixels |-> Cover(dst_triangle) \cap RectPixels(dst_rect),
             rect |-> dst_rect,
             value |-> [px \in RectPixels(dst_rect) |->
                            SampleLinear(source_image, roi,
                                         SourcePosition(src_triangle, dst_triangle, px))]]

\* one turn of the loop over use_triangles, up to the patch; a destination
\* rectangle that leaves the image makes the blend raise ValueError inside the
\* try block
WarpOneTriangle(source_image, src_landmarks_pixels, dst_landmarks_pixels, triangle_indices) ==
    LET src_triangle == TrianglePoints(src_landmarks_pixels, triangle_indices)
        dst_triangle == TrianglePoints(dst_landmarks_pixels, triangle_indices)
    IN IF IsTriangleFlipped(src_triangle, dst_triangle)
       THEN Skipped("flipped")
       ELSE IF IsDegenerate(src_triangle, dst_triangle)
            THEN Skipped("degenerate")
            ELSE IF ~InsideImage(BoundingRect(dst_triangle))
                 THEN Skipped("error")
                 ELSE WarpTriangle(source_image, src_triangle, dst_triangle)

\* a blend that copies the whole patch
BlendUnmasked(roi, patch, mask) == patch

\* roi_region * (1 - mask_norm) + warped_patch * mask_norm, as uint8
Blend(roi, patch, mask) == (roi * (MaskSet - mask) + patch * mask) \div MaskSet

\* np.zeros_like(source_image), np.zeros((height, width)); texture tells, for
\* every pixel of the mask, the position in use_triangles of the triangle
\* that wrote it last
Blank == [image |-> [px \in Pixels |-> 0], mask |-> {}, texture |-> <<>>]

\* the rest of the turn: the patch is blended into the image and or-ed into
\* the mask
MergePatch(out, patch, i) ==
    IF patch.skipped # "no" THEN out
    ELSE [image |-> [px \in Pixels |->
                        IF px \in RectPixels(patch.rect)
                        THEN Blend(out.image[px], patch.value[px],
                                   IF px \in patch.pixels THEN MaskSet ELSE 0)
                        ELSE out.image[px]],
          mask |-> out.mask \cup patch.pixels,
          texture |-> [px \in out.mask \cup patch.pixels |->
                          IF px \in patch.pixels THEN i ELSE out.texture[px]]]

\* a loop that ends after the first triangle it warped
RECURSIVE WarpLoopFirstOnly(_, _)
WarpLoopFirstOnly(patches, k) ==
    IF k = 0 THEN Blank
    ELSE LET out == WarpLoopFirstOnly(patches, k - 1)
         IN IF out.mask # {} THEN out ELSE MergePatch(out, patches[k], k)

\* the image and the mask after the first k turns of the loop
RECURSIVE WarpLoop(_, _)
WarpLoop(patches, k) ==
    IF k = 0 THEN Blank
    ELSE MergePatch(WarpLoop(patches, k - 1), patches[k], k)

\* warp_face_texture.  Indexing a point array with an index beyond its end
\* raises IndexError before the try block of the loop: the call raises and
\* returns nothing.
WarpFaceTexture(valid, cached, source_image, src_landmarks_pixels, dst_landmarks_pixels) ==
    LET tri == Triangulation(valid, cached, src_landmarks_pixels)
        use_triangles == tri.use_triangles
        raised == \E i \in DOMAIN use_triangles : \E idx \in Range(use_triangles[i]) :
                      idx >= Len(src_landmarks_pixels) \/ idx >= Len(dst_landmarks_pixels)
        patches == IF raised THEN <<>>
                   ELSE [i \in DOMAIN use_triangles |->
                             WarpOneTriangle(source_image, src_landmarks_pixels,
                                             dst_landmarks_pixels, use_triangles[i])]
        out == WarpLoop(patches, Len(patches))
    IN [cached |-> tri.cached, use_triangles |-> use_triangles, raised |-> raised,
        patches |-> patches, mask |-> out.mask, texture |-> out.texture,
        warped_texture |-> out.image]

\* the source images: two pictures without a black pixel
Gradient == [px \in Pixels |-> 1 + px[1] + 16 * px[2]]
Stripes  == [px \in Pixels |-> 250 - 40 * (px[1] % 2) - 3 * px[2]]
SourceImages == {Gradient, Stripes}

\* the point arrays the callers pass: two, three and four landmarks, no four
\* of them on one circle; one array has a point right of the image
TwoPoints   == << <<0, 0>>, <<4, 0>> >>
Upright     == << <<0, 0>>, <<4, 0>>, <<0, 4>> >>
Mirrored    == << <<0, 0>>, <<0, 4>>, <<4, 0>> >>
Tiny        == << <<0, 0>>, <<1, 0>>, <<0, 1>> >>
Collinear   == << <<0, 0>>, <<2, 0>>, <<4, 0>> >>
Kite        == << <<0, 0>>, <<4, 0>>, <<3, 3>>, <<0, 4>> >>
Stretched   == << <<0, 0>>, <<4, 0>>, <<5, 5>>, <<0, 4>> >>
Folded      == << <<0, 0>>, <<4, 0>>, <<3, 3>>, <<5, 2>> >>
Outside     == << <<0, 0>>, <<ImageSize, 0>>, <<0, 4>> >>
PointArrays ==
    { TwoPoints, Upright, Mirrored, Tiny, Collinear, Outside, Kite, Stretched, Folded }

\* the latest warp_face_texture call: its arguments and what it did
NoWarp ==
    [calls |-> 0, src |-> <<>>, dst |-> <<>>, use_triangles |-> <<>>, raised |-> FALSE,
     patches |-> <<>>, mask |-> {}, texture |-> <<>>,
     source_image |-> Blank.image, warped_texture |-> Blank.image]

\* a call of warp_face_texture (apply_face_warp makes two: source onto itself,
\* then source onto destination)
Warp ==
    /\ warp.calls < MaxWarps
    /\ \E source_image \in SourceImages, src \in PointArrays, dst \in PointArrays :
           /\ Len(src) = Len(dst)
           /\ LET r == WarpFaceTexture(valid_triangles, cached_triangles, source_image,
                                       src, dst) IN
                  /\ cached_triangles' = r.cached
                  /\ warp' = [calls |-> warp.calls + 1, src |-> src, dst |-> dst,
                              use_triangles |-> r.use_triangles, raised |-> r.raised,
                              patches |-> r.patches, mask |-> r.mask,
                              texture |-> r.texture, source_image |-> source_image,
                              warped_texture |-> r.warped_texture]
    /\ UNCHANGED <<rendererVars, valid_triangles, smooth, driver, expr>>

-----------------------------------------------------------------------------
(* The attributes of self that the two threads use *)

\* every self.<attribute> in detection_thread and in
\* create_mediapipe_landmarker, which it calls, of the three renderers
DetectionThreadAttributes ==
    {"camera_id", "data_queue", "fps_target", "is_running", "landmarker", "mp_model_path",
     "current_detection_fps", "current_fps"}

\* the state of a session: the displayed mesh and its vertices, the camera
\* calibration, the pose and the user parameters, the expression parameters
SessionAttributes ==
    {"face_mesh", "original_vertices", "original_full_vertices",
     "current_transformed_vertices", "current_transform_matrix",
     "camera_matrix", "dist_coeffs", "K", "use_solvepnp", "fallback_to_matrix",
     "ar_scale_factor", "ar_offset_x", "ar_offset_y", "ar_offset_z",
     "coordinate_system_flip_z", "enable_expression_drive", "expression_strength",
     "frame_count"}

-----------------------------------------------------------------------------
(* Specifications *)

\* the renderers import neither face_warper.py nor expression_driver.py
LibraryUnused ==
    /\ valid_triangles = <<>>
    /\ cached_triangles = NoCache
    /\ warp = NoWarp
    /\ smooth = NoSmooth
    /\ driver = NewDriver
    /\ expr = NoExpr

RendererInit(r, e) ==
    /\ renderer = r
    /\ env = e
    /\ process = "alive"
    /\ is_running = FALSE
    /\ data_queue = <<>>
    /\ det_pc = "idle"
    /\ frame_count = 0
    /\ cap = "none"
    /\ data_packet = NoPacket
    /\ put_result = "none"
    /\ ren_pc = IF r = "lab" THEN "load_calib" ELSE "load_model"
    /\ pkt = NoPacket
    /\ model_updated = FALSE
    /\ pushed = FALSE
    /\ solver = NotCalled
    /\ keys_pressed = 0
    /\ use_solvepnp = TRUE
    /\ K = NoK
    /\ dist = NoDist
    /\ loaded_K = [K |-> NoK, dist |-> NoDist]
    /\ original_vertices = <<>>
    /\ original_full_vertices = <<>>
    /\ face_mesh = [vertices |-> <<>>, triangles |-> <<>>]
    /\ current_transformed_vertices = <<>>
    /\ ar_scale_factor = ScaleUnit
    /\ ar_offset = <<0, 0, 0>>
    /\ coordinate_system_flip_z = FALSE
    /\ fallback_to_matrix = FALSE
    /\ enable_expression_drive = TRUE
    /\ expression_strength = ScaleUnit
    /\ exported = NoExport
    /\ output_frozen = FALSE
    /\ taken = NoneTaken

InitSession(r, e) ==
    /\ LibraryUnused
    /\ RendererInit(r, e)

Environment(frames, moving, scene, calib, keys) ==
    [frames |-> frames, moving |-> moving, scene |-> scene, calib |-> calib,
     keys |-> keys]

NoCalibration == Calib("absent", "absent", NoK, NoDist)

\* the two threads and the queue, for every renderer
Init ==
    \E r \in Renderers :
        InitSession(r, Environment(MaxFramesQ, 1, {GoodDetA}, NoCalibration, 0))

Next == DetectionThread \/ LabInit \/ RunAndCleanup \/ RenderLoop \/ SimpleLoop

Spec == Init /\ [][Next]_vars

\* start-up of the lab renderer with every calibration on disk
InitCal ==
    \E c \in CalibInputs :
        InitSession("lab", Environment(MaxFramesC, 1, {NoFaceDet, GoodDetA}, c, 0))

NextCal == DetectionThread \/ LabInit \/ RunAndCleanup \/ RenderLoop

SpecCal == InitCal /\ [][NextCal]_vars

\* one session of each renderer: the face moves through every detection result
\* while no key is pressed, or it holds still while parameter keys are pressed
Sessions ==
    { Environment(MaxFramesU, MaxMoving, Detections, NoCalibration, 0),
      Environment(MaxFramesK, 1, {NoFaceDet, GoodDetA, GoodDetB}, NoCalibration,
                  MaxKeys) }

InitU ==
    \E r \in Renderers : \E e \in Sessions : InitSession(r, e)

NextU == Next \/ ParameterKeys

SpecU == InitU /\ [][NextU]_vars

\* the renderer is not part of the library scenarios
RendererIdle == RendererInit("lab", Environment(0, 0, {}, NoCalibration, 0))
NoSession == LibraryUnused /\ RendererIdle

\* one AdvancedExpressionDriver and its caller
InitE == NoSession

NextE == Calibrate \/ TrackingGap \/ DetectMouth \/ DetectEye \/ DetectEyebrow

SpecE == InitE /\ [][NextE]_vars

\* one caller of FaceWarper.smooth_landmarks
InitS == NoSession

NextS == SmoothFirst \/ SmoothNext

SpecS == InitS /\ [][NextS]_vars

\* one FaceWarper after __init__, with whatever triangulation data mediapipe
\* offers, and its caller
InitW ==
    /\ \E data \in TriangulationData : valid_triangles = InitTriangulation(data)
    /\ cached_triangles = NoCache /\ warp = NoWarp /\ smooth = NoSmooth
    /\ driver = NewDriver /\ expr = NoExpr
    /\ RendererIdle

NextW == Warp

SpecW == InitW /\ [][NextW]_vars

\* one session of the lab renderer in front of a camera that delivers a single
\* frame, while scale keys are pressed; the queue never fills, so the retry of
\* the producer is never entered
ScaleKeys == KeyPlus \/ KeyMinus \/ KeyBracketLeft \/ KeyBracketRight \/ KeyReset

InitK == InitSession("lab", Environment(1, 1, {GoodDetA}, NoCalibration, MaxScaleKeys))

NextK ==
    \/ DetCreateLandmarker \/ DetOpenCamera \/ DetWhile \/ DetRead \/ DetDetect
    \/ DetPut \/ DetSleep \/ DetFinally
    \/ LabInit \/ RunAndCleanup \/ RenderLoop \/ ScaleKeys

SpecK == InitK /\ [][NextK]_vars

-----------------------------------------------------------------------------
(* Properties *)

\* C1: the packet the producer has just produced is never the one that is
\* dropped: once the producer is through its enqueue (directly, or by
\* discarding the oldest packet of a full queue), the packet has been enqueued
C1_NewestPacketNeverDropped == put_result # "lost"

\* C3: an exception while one frame is processed does not stop detection: the
\* detection loop is left only once the running flag has been cleared
C3_ExceptionDoesNotStopDetection ==
    (cap # "none" /\ det_pc \in {"finally", "done"}) => ~is_running

\* C4: after cleanup the detection thread leaves its loop and releases the
\* camera: when the program has ended, a camera that was opened has been released
C4_CameraReleasedAfterCancel ==
    (process = "exited" /\ cap # "none") => cap = "released"

\* C5: no queue access blocks either thread: wherever a thread stands at a
\* queue operation, that operation can be taken in the current state, whatever
\* the queue holds and wherever the other thread is
C5_QueueNeverBlocks ==
    process = "alive" =>
        /\ det_pc = "put"       => ENABLED DetPut
        /\ det_pc = "retry_get" => ENABLED DetRetryGet
        /\ det_pc = "retry_put" => ENABLED DetRetryPut
        /\ ren_pc = "get"       => ENABLED RenderGet
        /\ ren_pc = "empty"     => ENABLED SimpleEmpty
        /\ ren_pc = "sget"      => ENABLED SimpleGet

\* the producer stands at its put with a full queue while the render loop has
\* ended, and the render loop once found the queue empty and went on
C5_Witness ==
    /\ det_pc = "put" /\ Full(data_queue, renderer)
    /\ ren_pc = "returned" /\ pkt = NoPacket

\* C6: the data queue never holds more packets than its capacity (5, 5, 3)
C6_QueueBounded ==
    Len(data_queue) <= (CASE renderer = "lab" -> 5 [] renderer = "mask" -> 5
                          [] renderer = "simple" -> 3)

\* a packet was put into a full queue in place of the oldest one
C6_Witness ==
    /\ put_result = "replaced" /\ det_pc = "sleep"
    /\ Len(data_queue) = maxsize(renderer)

\* C7: when a calibration was loaded, every solver call gets the loaded K and
\* distortion coefficients; the estimate is used only without a calibration
C7_SolverUsesLoadedCalibration ==
    solver.called =>
        IF loaded_K.K # NoK
        THEN solver.K = loaded_K.K /\ solver.dist = loaded_K.dist
        ELSE solver.K = EstimatedK

\* C8: once the camera parameters are set up, a session without a calibration
\* uses the estimate with use_solvepnp false, and use_solvepnp is true only
\* when the intrinsics in use are the calibrated ones
C8_FlagMatchesIntrinsics ==
    ren_pc \notin {"load_calib", "setup_cam"} =>
        /\ loaded_K.K = NoK => (K = EstimatedK /\ ~use_solvepnp)
        /\ use_solvepnp => (K # EstimatedK /\ K = loaded_K.K)

\* the update of this iteration went through update_face_model (solvePnP method)
SolvePnPUpdateDone ==
    /\ renderer = "lab" /\ ren_pc = "key" /\ pkt # NoPacket
    /\ pkt.det.face /\ ~fallback_to_matrix

\* C9 as stated: the solver is called exactly when at least 6 correspondences
\* are available
C9_SolveFromSixPoints ==
    SolvePnPUpdateDone =>
        (solver.called <=> Cardinality(Correspondences(pkt.det)) >= 6)

\* C9 amended: the solver is called exactly when at least 8 correspondences
\* are available; with fewer the update fails without a solver call
C9_SolveFromEightPoints ==
    SolvePnPUpdateDone =>
        /\ solver.called <=> Cardinality(Correspondences(pkt.det)) >= 8
        /\ Cardinality(Correspondences(pkt.det)) < 8 => ~model_updated

\* a frame with 7 correspondences was refused without a solver call
C9_Witness ==
    /\ SolvePnPUpdateDone
    /\ Cardinality(Correspondences(pkt.det)) = 7
    /\ ~solver.called /\ ~model_updated

\* a step of the render loop in which update_face_model reports failure
FailedUpdateStep ==
    /\ renderer = "lab" /\ ren_pc = "update" /\ ren_pc' = "key"
    /\ pkt # NoPacket /\ ~fallback_to_matrix
    /\ ~model_updated'

\* C2: when update_face_model reports failure the displayed mesh keeps the
\* vertices it had, the geometry is not pushed to the renderer, and the render
\* loop goes on to its key handling and the next frame
C2_FailedUpdateKeepsMesh ==
    /\ [][FailedUpdateStep => (face_mesh' = face_mesh /\ ~pushed')]_vars
    /\ []((ren_pc = "key" /\ process = "alive") => ENABLED KeyNone)

\* the solver failed on a frame that followed a successful update
C2_Witness ==
    /\ SolvePnPUpdateDone
    /\ solver.called /\ ~model_updated /\ ~pushed
    /\ face_mesh.vertices # LoadedFullVertices

\* the vertices a successful update of this iteration must show, computed from
\* the vertices in the OBJ file
VerticesOfFrame(r, det, fallback, flipz, scale, offset, drive, strength) ==
    CASE r = "lab" /\ fallback ->
             ApplyUserParameters(MatrixVertices(LoadedVertices, Poses[det.pose]),
                                 flipz, scale, offset)
      [] r = "lab" /\ ~fallback ->
             SolvedVertices(LoadedFullVertices, LoadedVertices, Correspondences(det),
                            Poses[det.pose], flipz, scale, offset)
      [] r = "mask" ->
             IF drive
             THEN ApplyExpressionDrive(MatrixVertices(LoadedFullVertices, Poses[det.pose]),
                                       det, strength)
             ELSE MatrixVertices(LoadedFullVertices, Poses[det.pose])
      [] OTHER -> MatrixVertices(LoadedFullVertices, Poses[det.pose])

VerticesFromReference ==
    VerticesOfFrame(renderer, pkt.det, fallback_to_matrix, coordinate_system_flip_z,
                    ar_scale_factor, ar_offset, enable_expression_drive,
                    expression_strength)

\* C10: after the model is loaded the backed-up reference vertices and the
\* triangle list stay equal to the loaded values, and the vertices of every
\* successful update are derived from the reference vertices
C10_ReferenceMeshUntouched ==
    ren_pc \notin {"load_calib", "setup_cam", "load_model"} =>
        /\ original_vertices = IF renderer = "lab" THEN LoadedVertices
                               ELSE LoadedFullVertices
        /\ renderer = "lab" => original_full_vertices = LoadedFullVertices
        /\ face_mesh.triangles = LoadedTriangles
        /\ (model_updated /\ ren_pc \in {"key", "empty"}) =>
               face_mesh.vertices = VerticesFromReference

\* a second successful update, after a parameter key or an export
C10_Witness ==
    /\ ren_pc = "key" /\ model_updated /\ pkt.seq = 2
    /\ keys_pressed > 0
    /\ face_mesh.vertices # LoadedFullVertices

\* a step of the render loop in which the update of the mesh succeeds
SuccessfulUpdateStep ==
    /\ renderer \in {"lab", "mask"}
    /\ ren_pc = "update" /\ ren_pc' = "key"
    /\ model_updated'

\* C11: the vertices of a successful update are a function of the detection of
\* that frame, the reference vertices and the user parameters alone: whatever
\* frames came before and whatever the mesh showed before the step (a frozen
\* output after frames without a face included), the step leaves the vertices
\* that this detection gives from the reference, with nothing blended in
C11_UpdateIgnoresHistory ==
    [][SuccessfulUpdateStep =>
           face_mesh'.vertices =
               VerticesOfFrame(renderer, pkt.det, fallback_to_matrix,
                               coordinate_system_flip_z, ar_scale_factor, ar_offset,
                               enable_expression_drive, expression_strength)]_vars

\* the second frame is the first one to update the mesh: the frame before it
\* left the output frozen
C11_Witness ==
    /\ renderer \in {"lab", "mask"} /\ ren_pc = "key"
    /\ output_frozen /\ model_updated /\ pkt.seq = 2
    /\ face_mesh.vertices = VerticesFromReference
    /\ face_mesh.vertices # LoadedFullVertices

\* the driver with its smoothing accumulators as __init__ leaves them
FreshDriver(d) ==
    [d EXCEPT !.prev_mouth_open = 0, !.prev_smile_level = 0,
              !.prev_eye_blink = BothSides(0, 0), !.prev_eyebrow_raise = BothSides(0, 0)]

\* the latest call sampled a signal for the first time since the driver was
\* calibrated or since a gap without measurements
FirstSampleAfter(resets) ==
    /\ expr.call \in Signals /\ expr.first
    /\ expr.reset_by \in resets
    /\ driver.neutral_mouth_height # NoNeutral

\* C12: the first output of a signal after calibrate_neutral_expression, or
\* after a gap without measurements, is the output of a driver whose smoothing
\* accumulators hold nothing from before that point
C12_AccumulatorsReset ==
    FirstSampleAfter({"calibrate", "gap"}) =>
        expr.ret = Detect(expr.call, FreshDriver(driver), expr.landmarks).ret

\* the measurement of a frame for one signal, clipped to its range
RawLevels(signal, d, lm) ==
    CASE signal = "mouth" ->
             [open |-> Clip(MouthOpenLevel(d, lm), 0, MouthOpenMax),
              smile |-> Clip(SmileLevel(d, lm), 0, SmileMax)]
      [] signal = "eye" ->
             [left_blink |-> Clip(BlinkLevel(d, lm, "left"), 0, BlinkMax),
              right_blink |-> Clip(BlinkLevel(d, lm, "right"), 0, BlinkMax)]
      [] OTHER ->
             [left_raise |-> Clip(RaiseLevel(d, lm, "left"), 0, RaiseMax),
              right_raise |-> Clip(RaiseLevel(d, lm, "right"), 0, RaiseMax)]

\* C13: the first call of detect_mouth_expression, detect_eye_expression or
\* detect_eyebrow_expression after a successful calibration returns the
\* measurement of its frame, clipped to its range, not a blend with zero
C13_FirstSampleUnsmoothed ==
    FirstSampleAfter({"calibrate"}) =>
        expr.ret = RawLevels(expr.call, driver, expr.landmarks)

\* C14: smooth_landmarks returns current_landmarks as it is when
\* previous_landmarks is None, and otherwise, element by element,
\* smoothing_factor * previous + (1 - smoothing_factor) * current; the call
\* leaves its arguments as they were passed and changes no field of the
\* FaceWarper
C14_SmoothLandmarksFormula ==
    [][smooth'.calls > smooth.calls =>
          /\ smooth'.previous = NoLandmarks => smooth'.ret = smooth'.current
          /\ smooth'.previous # NoLandmarks =>
                 \A i \in DOMAIN smooth'.current :
                     smooth'.ret[i] =
                         FAdd(FMul(smooth'.factor, smooth'.previous[i]),
                              FMul(FSub(FOne, smooth'.factor), smooth'.current[i]))
          /\ smooth'.previous = smooth.ret
          /\ UNCHANGED <<valid_triangles, cached_triangles>>]_vars

\* a call with previous landmarks that differ from the current ones, and a
\* smoothing factor that is neither 0 nor 0.5
C14_Witness ==
    /\ smooth.calls > 1
    /\ smooth.factor = Round(11, -4)
    /\ smooth.previous # smooth.current
    /\ smooth.ret # smooth.current /\ smooth.ret # smooth.previous

Processed == DOMAIN warp.use_triangles
SrcTriangle(i) == TrianglePoints(warp.src, warp.use_triangles[i])
DstTriangle(i) == TrianglePoints(warp.dst, warp.use_triangles[i])

\* C16: every triangle a warp_face_texture call processes names three distinct
\* landmark indices that all lie inside the point arrays of the call; a triple
\* of the fixed table with an index outside the active point set has been
\* filtered out, so no call fails on one.
C16_TrianglesInBounds ==
    warp.calls > 0 =>
        /\ ~warp.raised
        /\ \A i \in Processed :
               /\ Cardinality(Range(warp.use_triangles[i])) = 3
               /\ \A idx \in Range(warp.use_triangles[i]) :
                      idx \in 0..(Len(warp.src) - 1)

\* C17: without a fixed table the Delaunay list is generated by the first
\* warp_face_texture call, from the source points of that call; every later
\* call over the same point-index space uses that very list and leaves the
\* cache alone, wherever its points are.
C17_DelaunayComputedOnce ==
    [][(warp'.calls = warp.calls + 1 /\ Len(valid_triangles) = 0) =>
           IF cached_triangles.none
           THEN /\ cached_triangles' =
                       Cache(GenerateDelaunayTriangulation(warp'.src), Len(warp'.src))
                /\ warp'.use_triangles = GenerateDelaunayTriangulation(warp'.src)
           ELSE Len(warp'.src) = cached_triangles.n =>
                    /\ cached_triangles' = cached_triangles
                    /\ warp'.use_triangles = cached_triangles.triangles]_vars

\* a second call with as many points as the first, at positions whose own
\* Delaunay triangulation is another one, warped with the cached list
C17_Witness ==
    /\ warp.calls = 2 /\ Len(valid_triangles) = 0 /\ ~warp.raised
    /\ Len(warp.src) = cached_triangles.n
    /\ warp.use_triangles = cached_triangles.triangles
    /\ GenerateDelaunayTriangulation(warp.src) # warp.use_triangles
    /\ warp.mask # {}

\* C18: the cached Delaunay list always belongs to the point count of the
\* call that uses it: a call with another number of points than the cache was
\* generated from regenerates it.
C18_CacheFollowsPointCount ==
    (warp.calls > 0 /\ Len(valid_triangles) = 0) =>
        /\ ~cached_triangles.none
        /\ cached_triangles.n = Len(warp.src)

\* the signed areas of source and destination triangle have opposite signs
OppositeSigns(i) ==
    \/ SignedArea2(SrcTriangle(i)) > 0 /\ SignedArea2(DstTriangle(i)) < 0
    \/ SignedArea2(SrcTriangle(i)) < 0 /\ SignedArea2(DstTriangle(i)) > 0

\* C19: a triangle whose source and destination signed areas have opposite
\* signs is skipped entirely: no affine transform is made for it, it writes no
\* pixel, and every pixel of the mask and of the warped image lies in a
\* triangle that is not flipped.
C19_FlippedSkipped ==
    (warp.calls > 0 /\ ~warp.raised) =>
        /\ \A i \in Processed :
               OppositeSigns(i) =>
                   ~warp.patches[i].affine /\ warp.patches[i].pixels = {}
        /\ \A px \in warp.mask \cup DOMAIN warp.texture :
               \E i \in Processed : ~OppositeSigns(i) /\ px \in Cover(DstTriangle(i))

\* a call that wrote pixels and left out a flipped triangle of two pixels or
\* more, one of which no other triangle wrote
C19_Witness ==
    /\ warp.calls > 0 /\ ~warp.raised /\ warp.mask # {}
    /\ \E i \in Processed :
           /\ OppositeSigns(i)
           /\ Abs(SignedArea2(SrcTriangle(i))) >= 2 * AreaEpsilon
           /\ Abs(SignedArea2(DstTriangle(i))) >= 2 * AreaEpsilon
           /\ Cover(DstTriangle(i)) \ warp.mask # {}

\* the area of the source or of the destination triangle is below the epsilon
BelowEpsilon(i) ==
    \E tri \in {SrcTriangle(i), DstTriangle(i)} :
        \/ 0 <= SignedArea2(tri) /\ SignedArea2(tri) < 2 * AreaEpsilon
        \/ SignedArea2(tri) < 0 /\ 0 - SignedArea2(tri) < 2 * AreaEpsilon

\* C20: a triangle whose source or destination area is below the epsilon
\* (1.0) is skipped: no affine transform is made for it and it writes no pixel;
\* every pixel of the mask lies in a triangle with both areas at or above it.
C20_DegenerateSkipped ==
    (warp.calls > 0 /\ ~warp.raised) =>
        /\ \A i \in Processed :
               BelowEpsilon(i) =>
                   ~warp.patches[i].affine /\ warp.patches[i].pixels = {}
        /\ \A px \in warp.mask :
               \E i \in Processed : ~BelowEpsilon(i) /\ px \in Cover(DstTriangle(i))

\* a call with a triangle of area 0.5 in the source whose destination
\* triangle covers pixels, none of them written
C20_Witness ==
    /\ warp.calls > 0 /\ ~warp.raised
    /\ \E i \in Processed :
           /\ BelowEpsilon(i) /\ ~OppositeSigns(i)
           /\ SignedArea2(SrcTriangle(i)) # 0
           /\ Cover(DstTriangle(i)) # {}
           /\ Cover(DstTriangle(i)) \cap warp.mask = {}

\* the triangles of the latest call that were warped, not skipped
Warped == { i \in Processed : warp.patches[i].skipped = "no" }

C22_NeverRaises ==
    warp.calls > 0 => ~warp.raised

\* C23: when source and destination points are equal, every pixel of the mask
\* has in the warped image the value the source image has at the same place.
C23_WarpIdentity ==
    (warp.calls > 0 /\ ~warp.raised /\ warp.src = warp.dst) =>
        \A px \in warp.mask : warp.warped_texture[px] = warp.source_image[px]

\* equal point arrays, two triangles warped
C23_Witness ==
    /\ warp.calls > 0 /\ ~warp.raised /\ warp.src = warp.dst
    /\ Cardinality(Warped) = 2
    /\ \E px \in warp.mask : warp.warped_texture[px] > 0

\* the pixels that exactly one warped triangle covers
CoveredOnce ==
    { px \in Pixels : Cardinality({ i \in Warped : px \in warp.patches[i].pixels }) = 1 }

\* C27: the mask, and the value of every pixel covered by exactly one warped
\* triangle, are the same for every order in which the loop could go through
\* the triangle list.
C27_OrderIndependent ==
    (warp.calls > 0 /\ ~warp.raised) =>
        \A order \in Permutations(DOMAIN warp.patches) :
            LET out == WarpLoop([i \in DOMAIN warp.patches |-> warp.patches[order[i]]],
                                Len(warp.patches))
            IN /\ out.mask = warp.mask
               /\ \A px \in CoveredOnce : out.image[px] = warp.warped_texture[px]

\* two warped triangles of different shape in source and destination that
\* share pixels, and pixels that only one of them covers
C27_Witness ==
    /\ warp.calls > 0 /\ ~warp.raised /\ warp.src # warp.dst
    /\ Cardinality(Warped) = 2
    /\ CoveredOnce # {} /\ warp.mask \ CoveredOnce # {}

\* a call of calibrate_neutral_expression has just returned
CalibrateStep == expr'.call = "calibrate" /\ expr'.calibrations = expr.calibrations + 1

\* C24: calibrate_neutral_expression with fewer than 10 frames returns False
\* and leaves the neutral baseline and every smoothing accumulator as they
\* were before the call.
C24_ShortCalibrationKeepsState ==
    [][(CalibrateStep /\ expr'.frames < 10) =>
           /\ expr'.ret = FALSE
           /\ driver' = driver
           /\ expr'.calibrated = expr.calibrated]_vars

\* a calibration with 9 frames has failed on a driver that was calibrated and
\* has smoothed a sample before; it is still calibrated
C24_Witness ==
    /\ expr.call = "calibrate" /\ expr.frames = 9 /\ expr.ret = FALSE
    /\ expr.calibrated /\ driver.neutral_mouth_height # NoNeutral
    /\ driver.prev_mouth_open > 0

\* the gates of the three detectors
MouthGated   == driver.neutral_mouth_height = NoNeutral
EyeGated     == DOMAIN driver.neutral_eye_heights = {}
EyebrowGated == DOMAIN driver.neutral_eyebrow_heights = {}

\* a detect_*_expression call has just returned
DetectStep == expr'.call \in Signals /\ expr'.calls = expr.calls + 1

\* C28: before any successful calibration the three detectors return all-zero
\* values and leave the smoothing accumulators unchanged; and at every
\* reachable state either all three detectors are gated off or none is.
C28_GatedUntilCalibrated ==
    /\ [](/\ MouthGated <=> EyeGated
          /\ EyeGated <=> EyebrowGated
          /\ MouthGated <=> ~expr.calibrated)
    /\ [][(DetectStep /\ ~expr.calibrated) =>
              /\ \A level \in DOMAIN expr'.ret : expr'.ret[level] = 0
              /\ driver' = driver]_vars

\* a detector was called with an expressive face on a driver that has been
\* through a failed calibration only, and returned zeros
C28_Witness ==
    /\ expr.call \in Signals /\ ~expr.calibrated /\ expr.calibrations > 0
    /\ expr.landmarks = WideOpenFace
    /\ \A level \in DOMAIN expr.ret : expr.ret[level] = 0
    /\ MouthGated /\ EyeGated /\ EyebrowGated

\* C25: an export writes the vertices that were most recently assigned to the
\* displayed mesh, expression offsets included, and the triangle list of the
\* mesh unmodified with every face index 1-based; in the lab renderer and in
\* the mask renderer.
C25_ExportWritesDisplayedMesh ==
    [][exported' # exported =>
           /\ exported'.vertices = face_mesh.vertices
           /\ exported'.faces = ObjFaces(face_mesh.triangles)]_vars

\* C26: session state (the displayed mesh and its vertices, the camera
\* calibration, the pose and the user parameters, the results of the update of
\* the running iteration) is used by the render thread only: the detection
\* thread names none of its attributes, and no step of the detection thread,
\* at whatever point of the render loop it is taken, changes any of it.
C26_SessionOwnedByRenderThread ==
    /\ [](DetectionThreadAttributes \cap SessionAttributes = {})
    /\ [][DetectionThread => UNCHANGED <<sessionVars, loopVars, ren_pc, output_frozen>>]_vars

\* the detection thread is between put_nowait and its retry while the render
\* thread is about to update a mesh it has updated once already
C26_Witness ==
    /\ det_pc = "retry_get" /\ ren_pc = "update"
    /\ pkt # NoPacket /\ pkt.seq >= 2
    /\ process = "alive"

\* C29: from every scale factor that the scale keys can reach, '+' never
\* lowers the scale factor and '-' never raises it.
C29_ScaleKeysMonotone ==
    [][/\ KeyPlus => ar_scale_factor' >= ar_scale_factor
       /\ KeyMinus => ar_scale_factor' <= ar_scale_factor]_vars

\* C30: the render loop takes the packets in the order of their production:
\* every packet it dequeues has a higher sequence number than the one it
\* dequeued before, under every interleaving and also when the producer has
\* discarded a packet from the full queue; the queue itself is in that order
\* and holds nothing the loop has had.
C30_PacketsInOrder ==
    /\ taken.ordered
    /\ \A i \in DOMAIN data_queue :
           /\ data_queue[i].seq > taken.last
           /\ \A j \in DOMAIN data_queue : i < j => data_queue[i].seq < data_queue[j].seq

\* the render loop has just taken a packet that is not the successor of the
\* one before, after the producer replaced the oldest packet of the full queue
C30_Witness ==
    /\ pkt # NoPacket /\ taken.last = pkt.seq /\ pkt.seq >= 3
    /\ put_result = "replaced"
    /\ Len(data_queue) >= 1 /\ data_queue[1].seq > pkt.seq + 1

====
